---- MODULE Spec2Model ----
(***************************************************************************)
(* Verification model of the enreader package of ha-enphase-gateway:       *)
(* the HTTP helper (http.py), the authentication strategies (auth.py),     *)
(* the identity model (models/info.py), the endpoint cache (endpoint.py),  *)
(* the gateway variants (gateway.py) and the reader (enreader.py).         *)
(*                                                                         *)
(* Every function is modelled by what its body does when it is called.     *)
(* A call that ends in a Python exception is a result of kind "raise"      *)
(* carrying the exception's class name.  The network is a script, the      *)
(* outcomes of the HTTP exchanges still to come, in order; an exchange     *)
(* past the end of the script is answered 200 with the nominal body.       *)
(*                                                                         *)
(* Module import and class-definition time are outside the model: the      *)
(* model starts from objects of the classes as the source declares them.   *)
(***************************************************************************)
EXTENDS Integers, Sequences, FiniteSets, TLC

VARIABLES
    device,     \* the identity document served at /info (tag texts)
    config,     \* the username, password and token the host is configured with
    net,        \* the script: outcomes of the HTTP exchanges still to come
    info,       \* the Info parsed by Info.from_response, held by the caller
    auth,       \* GatewayReader.auth
    gateway,    \* GatewayReader.gateway
    tauth,      \* an EnphaseTokenAuth instance
    ep,         \* a GatewayEndpoint instance
    now,        \* time.time()
    calls,      \* the authenticate() and update() calls finished, the faults met
    last,       \* the operation that finished last, its inputs and its result
    coord,      \* the fields of the GatewayUpdateCoordinator
    input       \* the arguments of a function called on its own

vars ==
    <<device, config, net, info, auth, gateway, tauth, ep, now, calls, last,
      coord, input>>

None == "None"

(***************************************************************************)
(* Bounds of the model.                                                    *)
(***************************************************************************)
MaxScript == 3          \* length of the script of a strategy or helper
MaxReaderScript == 2    \* length of the script of a reader
MaxAttempts == 2        \* the `attempts` argument of async_request
MaxTime == 2            \* the clock stops here
MaxCalls == 2           \* authenticate() and update() calls of one reader
MaxAmount == 2          \* the largest number a payload holds
RecursionLimit == 3     \* nested evaluations the interpreter allows

(***************************************************************************)
(* The network.                                                            *)
(***************************************************************************)
TransportErrors == {"ConnectError", "ReadError"}

StatusErrors == {"401", "500"}

\* "200" is a 200 response with the nominal body of the target,
\* "200x" a 200 response with any other body.
NetOutcomes == {"200", "200x"} \cup StatusErrors \cup TransportErrors

Scripts == UNION {[1..n -> NetOutcomes] : n \in 0..MaxScript}

NetAt(script, i) == IF i <= Len(script) THEN script[i] ELSE "200"

\* Values passed as the `url` and `client` arguments.
AsyncClient == [kind |-> "AsyncClient", target |-> None]

Url(target) == [kind |-> "str", target |-> target]

NoResponse == [status |-> None, target |-> None, nominal |-> FALSE]

Response(target, outcome) ==
    [status |-> "200", target |-> target, nominal |-> (outcome = "200")]

\* The result of a call: how it ended, and the HTTP exchanges made so far.
Return(resp, log) ==
    [kind |-> "return", exc |-> None, status |-> None, resp |-> resp,
     log |-> log]

Raise(exc, log) ==
    [kind |-> "raise", exc |-> exc, status |-> None, resp |-> NoResponse,
     log |-> log]

RaiseStatus(status, log) ==
    [kind |-> "raise", exc |-> "HTTPStatusError", status |-> status,
     resp |-> NoResponse, log |-> log]

Exchange(target, outcome) == [target |-> target, outcome |-> outcome]

(***************************************************************************)
(* http.py                                                                 *)
(***************************************************************************)
\* The loop of async_request from iteration `attempt` on.
RECURSIVE async_request_loop(_, _, _, _, _, _)
async_request_loop(attempt, url, client, attempts, script, log) ==
    IF attempt >= attempts
    THEN Return(NoResponse, log)     \* range(attempts) exhausted: the
                                     \* function ends without a return
    ELSE IF client.kind # "AsyncClient"
    THEN Raise("AttributeError", log)         \* client.request on a str
    ELSE LET o == NetAt(script, Len(log) + 1)
             log2 == Append(log, Exchange(url.target, o))
         IN  IF o \in TransportErrors
             THEN IF attempt < attempts
                  THEN async_request_loop(attempt + 1, url, client,
                                          attempts, script, log2)
                  ELSE Raise(o, log2)
             ELSE IF o \in StatusErrors
             THEN RaiseStatus(o, log2)        \* response.raise_for_status()
             ELSE Return(Response(url.target, o), log2)

async_request(method, url, client, attempts, script, log) ==
    async_request_loop(0, url, client, attempts, script, log)

async_get(url, client, attempts, script, log) ==
    async_request("GET", url, client, attempts, script, log)

async_post(url, client, attempts, script, log) ==
    async_request("POST", url, client, attempts, script, log)

(***************************************************************************)
(* auth.py                                                                 *)
(***************************************************************************)
NoObj == [cls |-> None]

\* Token strings: two well-formed JWTs, a string that is not a JWT, and
\* the empty string.  TokenExp is the `exp` claim of a well-formed one.
DecodableTokens == {"jwtA", "jwtB"}

Tokens == DecodableTokens \cup {"junk", ""}

IssuedToken == "jwtB"          \* the nominal body of the token endpoint

TokenExp(token) == IF token = "jwtA" THEN 31 ELSE 40

Falsy(x) == x \in {None, ""}

\* The result of a method of a strategy: how it ended, the value returned,
\* the strategy's fields afterwards, the exchanges made so far.
AReturn(val, self, log) ==
    [kind |-> "return", exc |-> None, val |-> val, self |-> self, log |-> log]

ARaise(exc, self, log) ==
    [kind |-> "raise", exc |-> exc, val |-> None, self |-> self, log |-> log]

LegacyAuth(username, password) ==
    [cls |-> "LegacyAuth", username |-> username, password |-> password]

\* jwt.decode on None raises DecodeError, and the handler's debug message
\* then subscripts None; on any other undecodable string the DecodeError
\* is raised again.
_decode_token(token) ==
    IF token = None THEN [kind |-> "raise", exc |-> "TypeError", exp |-> 0]
    ELSE IF token \notin DecodableTokens
    THEN [kind |-> "raise", exc |-> "DecodeError", exp |-> 0]
    ELSE [kind |-> "return", exc |-> None, exp |-> TokenExp(token)]

token_setter_keeping_cookies(self, token, log) ==
    LET store(decoded) ==
            IF decoded.kind = "raise" THEN ARaise(decoded.exc, self, log)
            ELSE AReturn(None,
                         [self EXCEPT !.token = token, !.exp = decoded.exp],
                         log)
    IN  store(_decode_token(token))

\* The setter of EnphaseTokenAuth.token.
token_setter(self, token, log) ==
    LET store(decoded) ==
            IF decoded.kind = "raise" THEN ARaise(decoded.exc, self, log)
            ELSE AReturn(None,
                         [self EXCEPT !.token = token, !.cookies = None,
                                      !.exp = decoded.exp],
                         log)
    IN  store(_decode_token(token))          \* `if token is None: pass`

EnphaseTokenAuth__init__(username, password, serial_number, token_raw) ==
    LET self == [cls |-> "EnphaseTokenAuth", token |-> None, exp |-> 0,
                 cookies |-> None, username |-> username,
                 password |-> password, serial |-> serial_number]
        done(set) == IF set.kind = "raise" THEN ARaise(set.exc, NoObj, <<>>)
                     ELSE AReturn(None, set.self, <<>>)
    IN  done(token_setter(self, token_raw, <<>>))

_async_post_enlighten(self, url, script, log) ==
    LET handle(r) ==
            IF r.kind = "raise" /\ r.exc \in TransportErrors
            THEN [r EXCEPT !.exc = "EnlightenCommunicationError"]
            ELSE IF r.kind = "raise" /\ r.exc = "HTTPStatusError"
            THEN IF r.status = "401"
                 THEN [r EXCEPT !.exc = "EnlightenAuthenticationError"]
                 ELSE Return(NoResponse, r.log)   \* handler ends: None
            ELSE r
    IN  handle(async_post(url, AsyncClient, 2, script, log))

_retrieve_token(self, script, log) ==
    LET issued(tok) ==
            IF tok.kind = "raise" THEN ARaise(tok.exc, self, tok.log)
            ELSE IF tok.resp.status = None        \* response.text on None
            THEN ARaise("AttributeError", self, tok.log)
            ELSE AReturn(IF tok.resp.nominal THEN IssuedToken ELSE "junk",
                         self, tok.log)
        logged(login) ==
            IF login.kind = "raise" THEN ARaise(login.exc, self, login.log)
            ELSE IF login.resp.status = None      \* response.text on None
            THEN ARaise("AttributeError", self, login.log)
            ELSE IF ~login.resp.nominal       \* enlighten_data["session_id"]
            THEN ARaise("KeyError", self, login.log)
            ELSE issued(_async_post_enlighten(self, Url("tokens"), script,
                                              login.log))
    IN  logged(_async_post_enlighten(self, Url("login"), script, log))

_refresh_token(self, script, log) ==
    LET assign(r) ==
            IF r.kind = "raise" THEN r
            ELSE IF ~Falsy(r.val) THEN token_setter(self, r.val, r.log)
            ELSE AReturn(None, self, r.log)
    IN  assign(_retrieve_token(self, script, log))

_check_jwt(self, token, script, log) ==
    IF token = None THEN ARaise("TypeError", self, log)   \* token[:9]
    ELSE IF Falsy(token) THEN ARaise("InvalidTokenError", self, log)
    ELSE LET handle(r) ==
                 IF r.kind = "raise" /\ r.exc = "HTTPStatusError"
                 THEN ARaise("UnboundLocalError", self, r.log)
                                                      \* resp.status_code
                 ELSE IF r.kind = "raise" /\ r.exc \in TransportErrors
                 THEN ARaise("GatewayCommunicationError", self, r.log)
                 ELSE IF r.kind = "raise" THEN ARaise(r.exc, self, r.log)
                 ELSE IF r.resp.status = None               \* resp.text
                 THEN ARaise("AttributeError", self, r.log)
                 ELSE IF r.resp.nominal
                 THEN AReturn(token, self, r.log)   \* the session cookies
                 ELSE ARaise("InvalidTokenError", self, r.log)
         IN  handle(async_get(Url("check_jwt"), AsyncClient, 2, script, log))

_refresh_cookies(self, script, log) ==
    LET assign(r) ==
            IF r.kind = "raise" THEN r
            ELSE IF r.val # None
            THEN AReturn(None, [self EXCEPT !.cookies = r.val], r.log)
            ELSE AReturn(None, self, r.log)
    IN  assign(_check_jwt(self, self.token, script, log))

EnphaseTokenAuth_setup(self, script, log) ==
    LET validate(r1) ==
            IF r1.kind = "raise" THEN r1
            ELSE IF Falsy(r1.self.token)
            THEN ARaise("GatewayAuthenticationError", r1.self, r1.log)
            ELSE _refresh_cookies(r1.self, script, r1.log)
    IN  validate(IF Falsy(self.token) THEN _refresh_token(self, script, log)
                 ELSE AReturn(None, self, log))

EnphaseTokenAuth_refresh(self, script, log) ==
    LET validate(r1) ==
            IF r1.kind = "raise" THEN r1
            ELSE _refresh_cookies(r1.self, script, r1.log)
    IN  validate(_refresh_token(self, script, log))

\* self._refresh_cookies(async_client) is called without await: the
\* coroutine is created and dropped, nothing of it runs.
EnphaseTokenAuth_resolve_401(self, script, log) == AReturn(None, self, log)

\* timedelta(days=30) in is_stale; times are counted in days.
StaleDays == 30

EnphaseTokenAuth_is_stale_inclusive(self, time) ==
    IF self.token = None THEN AReturn("True", self, <<>>)
    ELSE IF time >= self.exp - StaleDays THEN AReturn("True", self, <<>>)
    ELSE AReturn("False", self, <<>>)

\* The property EnphaseTokenAuth.is_stale read at time `time`.
EnphaseTokenAuth_is_stale(self, time) ==
    IF self.token = None THEN AReturn("True", self, <<>>)
    ELSE IF time > self.exp - StaleDays THEN AReturn("True", self, <<>>)
    ELSE AReturn("False", self, <<>>)

\* GatewayAuth.setup / refresh / resolve_401, inherited by LegacyAuth.
GatewayAuth_setup(self, script, log) == AReturn(None, self, log)

GatewayAuth_resolve_401(self, script, log) == AReturn(None, self, log)

auth_setup(self, script, log) ==
    IF self.cls = "EnphaseTokenAuth"
    THEN EnphaseTokenAuth_setup(self, script, log)
    ELSE GatewayAuth_setup(self, script, log)

(***************************************************************************)
(* models/info.py                                                          *)
(***************************************************************************)
\* bool() of the text of a tag.
PyBool(text) == IF text = "" THEN "False" ELSE "True"

Truthy(x) == x \notin {None, "", "False"}

\* AwesomeVersion(fw.text[1:]): the text without its first character.
AwesomeVersion(text) == Tail(text)

VersionLess(a, b) ==
    \/ a[1] < b[1]
    \/ a[1] = b[1] /\ a[2] < b[2]
    \/ a[1] = b[1] /\ a[2] = b[2] /\ a[3] < b[3]

\* The threshold below which a firmware is a legacy one.
LEGACY_ENVOY_VERSION == <<3, 9, 0>>

\* Info.from_response on a response whose content is the document `doc`.
Info_from_response(doc) ==
    [cls |-> "Info",
     serial_number |-> doc.sn,
     firmware_version |-> AwesomeVersion(doc.software),
     imeter |-> IF doc.imeter # None THEN PyBool(doc.imeter) ELSE None,
     web_tokens |-> IF doc.web_tokens # None THEN PyBool(doc.web_tokens)
                    ELSE None]

(***************************************************************************)
(* descriptors.py                                                          *)
(***************************************************************************)
\* Python values of the descriptors: a float, and None.
Float(x) == [type |-> "float", x |-> x]

PyNone == [type |-> "NoneType", x |-> 0]

\* The page of the `production` endpoint of an Envoy-R: one table row, its
\* label, the number in tenths and the unit printed in it.  NoPage is the
\* empty text the descriptor reads when nothing is stored.
RowLabels == {"Currently", "Today", "Past Week", "Since Installation"}

Units == {"W", "kW", "MW", "Wh", "kWh", "MWh"}

NoPage == [label |-> None, number |-> 0, unit |-> None]

\* The patterns of EnvoyLegacy: the label a pattern looks for and the units
\* its second group accepts.
LegacyPattern(name) ==
    CASE name = "production" ->
            [label |-> "Currently", units |-> {"W", "kW", "MW"}]
      [] name = "daily_production" ->
            [label |-> "Today", units |-> {"Wh", "kWh", "MWh"}]
      [] name = "seven_days_production" ->
            [label |-> "Past Week", units |-> {"Wh", "kWh", "MWh"}]
      [] name = "lifetime_production" ->
            [label |-> "Since Installation", units |-> {"Wh", "kWh", "MWh"}]

NoMatch == [matched |-> FALSE, group1 |-> 0, group2 |-> None]

\* re.search(regex, text, re.MULTILINE)
re_search(regex, text) ==
    IF text.label = regex.label /\ text.unit \in regex.units
    THEN [matched |-> TRUE, group1 |-> text.number, group2 |-> text.unit]
    ELSE NoMatch

\* RegexDescriptor.resolve(regex, data)
RegexDescriptor_resolve(regex, data) ==
    LET scale(match) ==
            IF match.matched
            THEN IF match.group2 \in {"kW", "kWh"}
                 THEN Float(match.group1 * 1000)
                 ELSE IF match.group2 \in {"mW", "MWh"}
                 THEN Float(match.group1 * 1000000)
                 ELSE Float(match.group1)
            ELSE PyNone
    IN  scale(re_search(regex, data))

\* JSON payloads: an object (a function from its keys to numbers), an
\* array of objects, and null.
Num(x) == [type |-> "int", x |-> x]

List(seq) == [type |-> "list", x |-> seq]

JsonObject(f) == [type |-> "dict", x |-> f]

JsonArray(seq) == [type |-> "array", x |-> seq]

JsonNull == PyNone

\* The expressions handed to jsonpath-ng: the empty expression, a field
\* name (`wattsNow`), and the field of every element of an array
\* (`$[*].eid`), and the field of the elements with a given eid.
EmptyPath == [kind |-> "empty", key |-> None]

Field(key) == [kind |-> "field", key |-> key]

Each(key) == [kind |-> "each", key |-> key]

\* `$[?(@.eid==<eid>)].<key>`
Where(eid, key) == [kind |-> "where", key |-> key, eid |-> eid]

\* The values of the field `key` of the elements of `seq` that have it.
RECURSIVE FieldOfEach(_, _)
FieldOfEach(key, seq) ==
    IF seq = <<>> THEN <<>>
    ELSE (IF key \in DOMAIN Head(seq) THEN <<Head(seq)[key]>> ELSE <<>>)
         \o FieldOfEach(key, Tail(seq))

\* [match.value for match in parse(path).find(data)]
jsonpath_find(path, data) ==
    IF path.kind = "field" /\ data.type = "dict"
    THEN IF path.key \in DOMAIN data.x THEN <<data.x[path.key]>> ELSE <<>>
    ELSE IF path.kind = "each" /\ data.type = "array"
    THEN FieldOfEach(path.key, data.x)
    ELSE IF path.kind = "where" /\ data.type = "array"
    THEN FieldOfEach(
             path.key,
             SelectSeq(data.x, LAMBDA el : /\ "eid" \in DOMAIN el
                                          /\ el["eid"] = path.eid))
    ELSE <<>>

JsonDescriptor_resolve_wrapped(path, data, default) ==
    IF path.kind = "empty" \/ data.type = JsonNull.type THEN data
    ELSE LET keep(result) ==
                 IF result = <<>> THEN default ELSE List(result)
         IN  keep(jsonpath_find(path, data))

\* JsonDescriptor.resolve(path, data, default)
JsonDescriptor_resolve(path, data, default) ==
    IF path.kind = "empty" \/ data.type = JsonNull.type THEN data
    ELSE LET unwrap(result) ==
                 IF result = <<>> THEN default
                 ELSE IF Len(result) = 1 THEN Num(result[1])
                 ELSE List(result)
         IN  unwrap(jsonpath_find(path, data))

\* JsonDescriptor.__get__(obj) of a descriptor declared as
\* JsonDescriptor(jsonpath_expr, required_endpoint): obj.data is the
\* mapping from endpoint paths to payloads.
JsonDescriptor__get__(jsonpath_expr, required_endpoint, obj) ==
    JsonDescriptor_resolve(
        jsonpath_expr,
        IF required_endpoint \in DOMAIN obj.data
        THEN obj.data[required_endpoint] ELSE JsonObject(<<>>),
        PyNone)

(***************************************************************************)
(* endpoint.py                                                             *)
(***************************************************************************)
GatewayEndpoint(path, cache_for) ==
    [cls |-> "GatewayEndpoint", path |-> path, data |-> None,
     cache_for |-> cache_for, timestamp |-> 0]

\* The attributes GatewayEndpoint.__init__ sets.
GatewayEndpointAttributes == {"path", "data", "cache_for", "_timestamp"}

\* The property reads self._cache_for.
cache_expired(self, time) ==
    IF "_cache_for" \notin GatewayEndpointAttributes
    THEN [kind |-> "raise", exc |-> "AttributeError", val |-> FALSE]
    ELSE [kind |-> "return", exc |-> None,
          val |-> (self.timestamp + self.cache_for <= time)]

\* GatewayEndpoint.update(request, force): the condition evaluates
\* self.cache_expired first, whatever `force` is.
GatewayEndpoint_update(self, force, time, script, log) ==
    LET store(r) ==
            IF r.kind = "raise" THEN ARaise(r.exc, self, r.log)
            ELSE IF r.resp.status = None
            THEN ARaise("AttributeError", self, r.log)
            ELSE AReturn(None,
                         [self EXCEPT !.data = "payload",
                                      !.timestamp = time],
                         r.log)
        decide(expired) ==
            IF expired.kind = "raise" THEN ARaise(expired.exc, self, log)
            ELSE IF ~expired.val /\ ~force THEN AReturn(None, self, log)
            ELSE store(async_get(Url(self.path), AsyncClient, 2, script,
                                 log))
    IN  decide(cache_expired(self, time))

\* A decoded payload: the tree json.loads builds, the bytes of
\* response.content, the string of response.text.
Parsed(body) == [type |-> "json", x |-> body]

Bytes(body) == [type |-> "bytes", x |-> body]

Str(body) == [type |-> "str", x |-> body]

\* json.loads(response.content)
json_loads(body) ==
    IF body.format = "json"
    THEN [kind |-> "return", exc |-> None, val |-> Parsed(body)]
    ELSE [kind |-> "raise", exc |-> "JSONDecodeError", val |-> PyNone]

\* GatewayEndpoint._decode_response(response).  content_type None: the
\* response has no content-type header.  The last branch evaluates
\* response.text and returns nothing.
_decode_response(response) ==
    LET content_type == IF response.content_type = None
                        THEN "application/json"
                        ELSE response.content_type
    IN  IF content_type = "application/json"
        THEN json_loads(response.body)
        ELSE IF content_type \in {"text/xml", "application/xml"}
        THEN [kind |-> "return", exc |-> None,
              val |-> Bytes(response.body)]
        ELSE [kind |-> "return", exc |-> None, val |-> PyNone]

(***************************************************************************)
(* gateway.py                                                              *)
(***************************************************************************)
GatewayClasses ==
    {"EnvoyLegacy", "Envoy", "EnvoyS", "EnvoySMetered",
     "EnvoySMeteredCtDisabled"}

\* EnphaseGateway.__init__ assigns self._required_endpoints, which the
\* class declares as a property without a setter: the assignment raises
\* and no instance of any variant class is ever returned.  The subclasses
\* that define __init__ call it first.
EnphaseGateway__init__(cls) ==
    [kind |-> "raise", exc |-> "AttributeError", self |-> NoObj]

\* The names an instance of a variant class would answer to, besides the
\* measurement properties: the members of EnphaseGateway.
EnphaseGatewayAttributes ==
    {"data", "initial_update_finished", "properties", "all_values",
     "_required_endpoints", "_required_probing_endpoints", "update",
     "probe", "_clean_probes", "_get_subclass", "get"}

\* Whether reading obj.name succeeds: not on None, and on a variant
\* instance only for a name the class has.
HasAttr(obj, name) == obj.cls # None /\ name \in EnphaseGatewayAttributes

\* The class each variant class derives from (None: EnphaseGateway).
Parent(cls) ==
    CASE cls = "EnvoyS" -> "Envoy"
      [] cls = "EnvoySMetered" -> "EnvoyS"
      [] cls = "EnvoySMeteredCtDisabled" -> "EnvoyS"
      [] OTHER -> None

ProductionNames ==
    {"production", "daily_production", "seven_days_production",
     "lifetime_production"}

Bind(names, path) == [n \in names |-> [path |-> path, cache_for |-> 0]]

\* The descriptors and gateway properties a class body declares: what
\* BaseDescriptor.__set_name__ stores in <class>_gateway_properties.
OwnProperties(cls) ==
    CASE cls = "EnvoyLegacy" -> Bind(ProductionNames, "production")
      [] cls = "Envoy" ->
            Bind(ProductionNames, "api/v1/production")
            @@ Bind({"inverters"}, "api/v1/production/inverters")
      [] cls = "EnvoyS" ->
            Bind({"ensemble_secctrl"}, "ivp/ensemble/secctrl")
            @@ Bind({"ensemble_inventory"}, "ivp/ensemble/inventory")
            @@ Bind({"ensemble_power"}, "ivp/ensemble/power")
            @@ Bind({"ac_battery"}, "production.json")
      [] cls = "EnvoySMetered" ->
            Bind({"grid_power", "grid_import", "lifetime_grid_net_import",
                  "grid_export", "lifetime_grid_net_export", "production",
                  "lifetime_production", "consumption",
                  "lifetime_consumption"}, "ivp/meters/readings")
            @@ Bind({"daily_production", "seven_days_production",
                     "daily_consumption", "seven_days_consumption"},
                    "production.json")
      [] cls = "EnvoySMeteredCtDisabled" ->
            Bind(ProductionNames
                 \cup {"consumption", "daily_consumption",
                       "lifetime_consumption"}, "production.json")
      [] OTHER -> <<>>

\* The table EnphaseGateway.__new__ collects for an instance: the class
\* first, then its ancestors, setdefault keeping the first binding.
RECURSIVE _gateway_properties_ancestor_first(_)
_gateway_properties_ancestor_first(cls) ==
    IF cls = None THEN <<>>
    ELSE _gateway_properties_ancestor_first(Parent(cls)) @@ OwnProperties(cls)

RECURSIVE _gateway_properties(_)
_gateway_properties(cls) ==
    IF cls = None THEN <<>>
    ELSE OwnProperties(cls) @@ _gateway_properties(Parent(cls))

\* The paths of the endpoints an instance of the class requires.
RequiredPaths(cls) ==
    {_gateway_properties(cls)[n].path : n \in DOMAIN _gateway_properties(cls)}

\* const.AVAILABLE_PROPERTIES: the property surface every variant is
\* queried for, taken as the names some variant class binds.
AVAILABLE_PROPERTIES ==
    UNION {DOMAIN _gateway_properties(cls) : cls \in GatewayClasses}

\* EnphaseGateway.__getattribute__ as `g.name` evaluates for the value `g`
\* of reader.gateway: None has no attributes; a name the instance has
\* yields its value; otherwise AttributeError becomes None for a name of
\* AVAILABLE_PROPERTIES and is raised again for any other.
EnphaseGateway__getattribute__(g, name) ==
    IF g.cls = None THEN ARaise("AttributeError", g, <<>>)
    ELSE IF name \in DOMAIN _gateway_properties(g.cls)
    THEN AReturn("resolved", g, <<>>)
    ELSE IF name \in EnphaseGatewayAttributes
    THEN AReturn("member", g, <<>>)
    ELSE IF name \in AVAILABLE_PROPERTIES
    THEN AReturn(None, g, <<>>)
    ELSE ARaise("AttributeError", g, <<>>)

\* EnphaseGateway.get(attr, default) called on the value of reader.gateway.
EnphaseGateway_get(g, attr, default) ==
    LET got(r) ==
            IF r.kind = "raise" THEN r
            ELSE IF r.val = None \/ r.val = "not_supported"
            THEN AReturn(default, g, <<>>)
            ELSE r
    IN  got(EnphaseGateway__getattribute__(g, attr))

\* The eid JsonDescriptor.resolve finds in an ivp/meters payload for the
\* enabled meter of a measurement type, None without such a meter.
MeterEid(payload, type) == IF type \in payload THEN "eid" ELSE None

\* EnvoySMetered.ivp_meters_probe: the method does not read its argument
\* but self.data.get("ivp/meters", {}).
ivp_meters_probe(self, data) ==
    LET stored == IF "ivp/meters" \in DOMAIN self.data
                  THEN self.data["ivp/meters"] ELSE {}
    IN  [self EXCEPT
            !.production_meter = MeterEid(stored, "production"),
            !.net_consumption_meter = MeterEid(stored, "net-consumption"),
            !.total_consumption_meter =
                MeterEid(stored, "total-consumption")]

\* EnvoySMetered._get_subclass, and EnphaseGateway._get_subclass for the
\* other classes.  val is the class of the instance returned, or None.
_get_subclass(self) ==
    IF self.cls # "EnvoySMetered" THEN AReturn(None, self, <<>>)
    ELSE IF ~HasAttr(self, "_probes_finished")
    THEN ARaise("AttributeError", self, <<>>)
    ELSE IF self.production_meter = None
            \/ (self.net_consumption_meter = None
                /\ self.total_consumption_meter = None)
    THEN LET built(c) ==
                 IF c.kind = "raise" THEN ARaise(c.exc, self, <<>>)
                 ELSE AReturn("EnvoySMeteredCtDisabled", self, <<>>)
         IN  built(EnphaseGateway__init__("EnvoySMeteredCtDisabled"))
    ELSE AReturn(None, self, <<>>)

\* The probe methods __new__ collects for an instance of a class, from the
\* class and its bases: only EnvoySMetered defines one, and
\* EnvoySMeteredCtDisabled derives from EnvoyS.
_gateway_probes(cls) ==
    IF cls = "EnvoySMetered" THEN {"ivp_meters_probe"} ELSE {}

\* gateway.probe(request) as a caller holding `g` in reader.gateway
\* evaluates it.  endpoint.fetch(_request) is not awaited: the probe
\* functions get coroutine objects and no request is made.
EnphaseGateway_probe(g) ==
    IF g.cls = None THEN ARaise("AttributeError", g, <<>>)
    ELSE IF "ivp_meters_probe" \in _gateway_probes(g.cls)
    THEN _get_subclass(ivp_meters_probe(g, "coroutine"))
    ELSE _get_subclass(g)

\* Python's truth value of a resolved value.
IsTrue(v) ==
    \/ v.type = "int" /\ v.x # 0
    \/ v.type = "list" /\ v.x # <<>>

\* self.data.get("ivp/meters/readings", {})
MeterReadings(self) ==
    IF "ivp/meters/readings" \in DOMAIN self.data
    THEN self.data["ivp/meters/readings"] ELSE JsonObject(<<>>)

\* EnvoySMetered.production
EnvoySMetered_production(self) ==
    JsonDescriptor_resolve(Where(self.production_meter.x, "activePower"),
                           MeterReadings(self), PyNone)

\* EnvoySMetered.consumption
EnvoySMetered_consumption(self) ==
    IF IsTrue(self.net_consumption_meter)
    THEN LET add(prod, cons) ==
                 IF IsTrue(prod) /\ IsTrue(cons)
                 THEN Num(prod.x + cons.x)
                 ELSE PyNone
         IN  add(EnvoySMetered_production(self),
                 JsonDescriptor_resolve(
                     Where(self.net_consumption_meter.x, "activePower"),
                     MeterReadings(self), PyNone))
    ELSE IF IsTrue(self.total_consumption_meter)
    THEN JsonDescriptor_resolve(
             Where(self.total_consumption_meter.x, "activePower"),
             MeterReadings(self), PyNone)
    ELSE PyNone

\* grid_import without the test of the sign: the power as resolved.
EnvoySMetered_grid_import_unclamped(self) ==
    IF IsTrue(self.net_consumption_meter)
    THEN LET clamp(power) ==
                 IF power.type = "int" THEN power ELSE PyNone
         IN  clamp(JsonDescriptor_resolve(
                       Where(self.net_consumption_meter.x, "activePower"),
                       MeterReadings(self), PyNone))
    ELSE PyNone

\* EnvoySMetered.grid_import
EnvoySMetered_grid_import(self) ==
    IF IsTrue(self.net_consumption_meter)
    THEN LET clamp(power) ==
                 IF power.type = "int"
                 THEN (IF power.x > 0 THEN power ELSE Num(0))
                 ELSE PyNone
         IN  clamp(JsonDescriptor_resolve(
                       Where(self.net_consumption_meter.x, "activePower"),
                       MeterReadings(self), PyNone))
    ELSE PyNone

\* EnvoySMetered.grid_export
EnvoySMetered_grid_export(self) ==
    IF IsTrue(self.net_consumption_meter)
    THEN LET clamp(power) ==
                 IF power.type = "int"
                 THEN (IF power.x < 0 THEN Num(power.x * (0 - 1)) ELSE Num(0))
                 ELSE PyNone
         IN  clamp(JsonDescriptor_resolve(
                       Where(self.net_consumption_meter.x, "activePower"),
                       MeterReadings(self), PyNone))
    ELSE PyNone

\* The result of evaluating a property of a variant instance: the set of
\* the endpoints of the list returned, or the exception raised.
PReturn(val) == [kind |-> "return", exc |-> None, val |-> val]

PRaise(exc) == [kind |-> "raise", exc |-> exc, val |-> {}]

\* list(endpoints.values()) of a dict from paths to caching intervals.
EndpointList(endpoints) ==
    {[path |-> p, cache_for |-> endpoints[p]] : p \in DOMAIN endpoints}

\* The loop of EnphaseGateway._required_endpoints over the properties
\* `names` still to visit.  After the initial update a property whose value
\* is None, "", [] or {} is skipped (self.valid: the properties with
\* another value).  `endpoints[endpoint.path]` indexes a plain dict.
RECURSIVE CollectEndpoints(_, _, _)
CollectEndpoints(self, names, endpoints) ==
    IF names = {} THEN [kind |-> "return", exc |-> None, val |-> endpoints]
    ELSE LET visit(name, endpoint) ==
                 IF self.initial_update_finished /\ name \notin self.valid
                 THEN CollectEndpoints(self, names \ {name}, endpoints)
                 ELSE IF endpoint.path \notin DOMAIN endpoints
                 THEN [kind |-> "raise", exc |-> "KeyError",
                       val |-> endpoints]
                 ELSE CollectEndpoints(
                          self, names \ {name},
                          [endpoints EXCEPT
                              ![endpoint.path] =
                                  IF endpoint.cache_for < @
                                  THEN endpoint.cache_for ELSE @])
             first(name) ==
                 visit(name, _gateway_properties(self.cls)[name])
         IN  first(CHOOSE name \in names : TRUE)

\* The statements of EnphaseGateway._required_endpoints after the read of
\* the cached list: the loop, then the assignment of the list to
\* self._required_endpoints, a property without a setter, once the initial
\* update has finished.
_required_endpoints_collect(self) ==
    LET store(r) ==
            IF r.kind = "raise" THEN PRaise(r.exc)
            ELSE IF self.initial_update_finished
            THEN PRaise("AttributeError")
            ELSE PReturn(EndpointList(r.val))
    IN  store(CollectEndpoints(self,
                               DOMAIN _gateway_properties(self.cls), <<>>))

\* EnphaseGateway._required_endpoints read on a variant instance.  Its
\* first statement reads self._required_endpoints, the property itself:
\* the evaluation nests until the interpreter raises RecursionError, which
\* every level passes on.  A level that got a list back would return it:
\* a list is never None, so no level reaches the loop.
RECURSIVE EnphaseGateway__required_endpoints(_, _)
EnphaseGateway__required_endpoints(self, depth) ==
    IF depth >= RecursionLimit THEN PRaise("RecursionError")
    ELSE EnphaseGateway__required_endpoints(self, depth + 1)

\* EnphaseGateway.__new__(cls): the instance handed to __init__, with the
\* property table and the probes collected from the class and its bases.
EnphaseGateway__new__(cls) ==
    [cls |-> cls, _gateway_properties |-> _gateway_properties(cls),
     _gateway_probes |-> _gateway_probes(cls)]

(***************************************************************************)
(* enreader.py                                                             *)
(***************************************************************************)
\* The result of a method of the reader.
RReturn(a, g, i, n401, log) ==
    [kind |-> "return", exc |-> None, status |-> None, auth |-> a,
     gateway |-> g, info |-> i, n401 |-> n401, cls |-> None, log |-> log]

RRaise(exc, status, a, g, n401, log) ==
    [kind |-> "raise", exc |-> exc, status |-> status, auth |-> a,
     gateway |-> g, info |-> NoObj, n401 |-> n401, cls |-> None, log |-> log]

\* GatewayReader._async_get.  The call of async_get passes the client
\* first and the url second; async_get takes (url, client).  n401 counts
\* the resolve_401 calls that ran to completion: the call in the handler
\* is not awaited.
RECURSIVE _async_get(_, _, _, _, _, _)
_async_get(a, url, handle_401, n401, script, log) ==
    LET handle(r) ==
            IF r.kind = "raise" /\ r.exc = "HTTPStatusError"
            THEN IF r.status = "401" /\ handle_401
                 THEN IF a.cls = None       \* self.auth.resolve_401 on None
                      THEN [r EXCEPT !.exc = "AttributeError",
                                     !.status = None]
                           @@ [n401 |-> n401]
                      ELSE _async_get(a, url, FALSE, n401, script, r.log)
                 ELSE r @@ [n401 |-> n401]
            ELSE r @@ [n401 |-> n401]
    IN  handle(async_get(AsyncClient, url, 2, script, log))

\* The variant class _detect_model selects.
_detect_class(i) ==
    IF VersionLess(i.firmware_version, LEGACY_ENVOY_VERSION)
    THEN "EnvoyLegacy"
    ELSE IF i.imeter # None
    THEN IF Truthy(i.imeter) THEN "EnvoySMetered" ELSE "EnvoyS"
    ELSE "Envoy"

\* GatewayReader._detect_model.  cls is the class whose constructor the
\* method calls.  After the assignment of self.gateway the method reads
\* self.gateway.probing_endpoints, then calls run_probes and get_subclass.
_detect_model(a, g, i, log) ==
    LET probe(cls, new) ==
            IF new.kind = "raise"
            THEN [RRaise(new.exc, None, a, g, 0, log) EXCEPT !.cls = cls]
            ELSE IF ~HasAttr(new.self, "probing_endpoints")
                    \/ ~HasAttr(new.self, "run_probes")
                    \/ ~HasAttr(new.self, "get_subclass")
            THEN [RRaise("AttributeError", None, a, new.self, 0, log)
                      EXCEPT !.cls = cls]
            ELSE [RReturn(a, new.self, NoObj, 0, log) EXCEPT !.cls = cls]
        create(cls) == probe(cls, EnphaseGateway__init__(cls))
    IN  create(_detect_class(i))

\* GatewayReader._get_info.
_get_info(a, doc, script, log) ==
    LET parse(r) ==
            IF r.kind = "raise"
            THEN IF r.exc = "ConnectError"   \* self._request does not exist
                 THEN RRaise("AttributeError", None, a, NoObj, 0, r.log)
                 ELSE RRaise(r.exc, r.status, a, NoObj, 0, r.log)
            ELSE IF r.resp.status = None     \* response.content on None
            THEN RRaise("AttributeError", None, a, NoObj, 0, r.log)
            ELSE IF ~r.resp.nominal          \* etree.fromstring
            THEN RRaise("XMLSyntaxError", None, a, NoObj, 0, r.log)
            ELSE RReturn(a, NoObj, Info_from_response(doc), 0, r.log)
    IN  parse(_async_get(a, Url("info"), FALSE, 0, script, log))

InstallerPassword == "installer-pw"      \* EnvoyUtils.get_password(sn, user)

\* The strategy authenticate() assigns to self.auth, if it assigns one.
\* self.serial_number is the serial number of self._info, a GatewayInfo
\* that nothing updates.
_select_auth(a, i, username, password, token) ==
    IF Truthy(i.web_tokens)
    THEN IF Truthy(token) \/ (Truthy(username) /\ Truthy(password))
         THEN EnphaseTokenAuth__init__(username, password, None, token)
         ELSE AReturn(None, a, <<>>)
    ELSE LET u == IF ~Truthy(username) \/ username = "installer"
                  THEN "installer" ELSE username
             p == IF ~Truthy(username) \/ username = "installer"
                  THEN InstallerPassword
                  ELSE IF username = "envoy" /\ ~Truthy(password)
                  THEN "sn[:6]" ELSE password
         IN  IF Truthy(u) /\ Truthy(p)
             THEN AReturn(None, LegacyAuth(u, p), <<>>)
             ELSE AReturn(None, a, <<>>)

\* GatewayReader.authenticate.
authenticate(a, g, doc, username, password, token, script) ==
    LET detect(gi, su) ==
            IF su.kind = "raise"
            THEN RRaise(su.exc, None, su.self, g, 0, su.log)
            ELSE _detect_model(su.self, g, gi.info, su.log)
        setup(gi, sel) ==
            IF sel.kind = "raise"
            THEN RRaise(sel.exc, None, a, g, 0, gi.log)
            ELSE IF sel.self.cls = None
            THEN RRaise("GatewayAuthenticationRequired", None, sel.self, g,
                        0, gi.log)
            ELSE detect(gi, auth_setup(sel.self, script, gi.log))
        select(gi) ==
            IF gi.kind = "raise" THEN [gi EXCEPT !.gateway = g]
            ELSE IF gi.info.serial_number = None
            THEN RRaise("AssertionError", None, a, g, 0, gi.log)
            ELSE setup(gi, _select_auth(a, gi.info, username, password,
                                        token))
    IN  select(_get_info(a, doc, script, <<>>))

\* GatewayReader.update.  The first statement reads
\* self.gateway.required_endpoints; the calls of update_endpoints are not
\* awaited, so nothing of update_endpoints runs.
update(a, g, script) ==
    IF ~HasAttr(g, "required_endpoints")
    THEN RRaise("AttributeError", None, a, g, 0, <<>>)
    ELSE RReturn(a, [g EXCEPT !.initial_update_finished = TRUE], NoObj, 0,
                 <<>>)

(***************************************************************************)
(* coordinator.py                                                          *)
(***************************************************************************)
\* GatewayUpdateCoordinator.__init__: setup not complete, no timer; tasks
\* counts the background tasks created for _async_try_refresh_auth, and
\* store_token is the token the Store holds.
NoCoord ==
    [setup_complete |-> FALSE, timer |-> FALSE, tasks |-> 0,
     store_token |-> None]

\* The result of a coroutine of the coordinator: how it ended, the
\* coordinator's fields, the reader's strategy and variant, the exchanges
\* made, the authenticate() and update() calls made.
CReturn(c, a, g, log, nauth, nupdate) ==
    [kind |-> "return", exc |-> None, coord |-> c, auth |-> a,
     gateway |-> g, log |-> log, nauth |-> nauth, nupdate |-> nupdate]

CRaise(exc, c, a, g, log, nauth, nupdate) ==
    [kind |-> "raise", exc |-> exc, coord |-> c, auth |-> a,
     gateway |-> g, log |-> log, nauth |-> nauth, nupdate |-> nupdate]

\* The script left for a call that starts after the exchanges of `log`.
After(script, log) == SubSeq(script, Len(log) + 1, Len(script))

\* _async_refresh_auth_if_needed: reads reader.auth.is_stale and creates a
\* background task when it is true.
_async_refresh_auth_if_needed(c, a, time) ==
    IF a.cls = None THEN ARaise("AttributeError", c, <<>>)
    ELSE IF a.cls = "LegacyAuth" THEN AReturn(None, c, <<>>)
    ELSE LET decide(st) ==
                 IF st.val = "True"
                 THEN AReturn(None, [c EXCEPT !.tasks = @ + 1], <<>>)
                 ELSE AReturn(None, c, <<>>)
         IN  decide(EnphaseTokenAuth_is_stale(a, time))

\* _async_try_refresh_auth, the body of a background task: the call
\* reader.auth.refresh() passes no client, refresh(self, async_client)
\* raises TypeError before its body starts, and the bare except returns.
_async_try_refresh_auth(c, a) == AReturn(None, c, <<>>)

\* _async_mark_setup_complete
_async_mark_setup_complete(c, a) ==
    [c EXCEPT !.setup_complete = TRUE,
              !.timer = (a.cls = "EnphaseTokenAuth")]

\* _async_update_cached_token
_async_update_cached_token(c, a) ==
    IF a.cls # "EnphaseTokenAuth" THEN c
    ELSE IF Falsy(a.token) THEN c
    ELSE [c EXCEPT !.store_token = a.token]

\* _async_setup_and_authenticate, started after the exchanges of `log`.
_async_setup_and_authenticate(c, a, g, doc, cfg, time, script, log) ==
    LET cached(r) ==
            IF r.kind = "raise"
            THEN CRaise(r.exc, c, r.auth, r.gateway, log \o r.log, 1, 0)
            ELSE LET checked(st) ==
                         IF st.kind = "raise"
                         THEN CRaise(st.exc, c, r.auth, r.gateway,
                                     log \o r.log, 1, 0)
                         ELSE CReturn(st.self, r.auth, r.gateway,
                                      log \o r.log, 1, 0)
                 IN  checked(_async_refresh_auth_if_needed(c, r.auth, time))
        fresh(r) ==
            IF r.kind = "raise"
            THEN CRaise(r.exc, c, r.auth, r.gateway, log \o r.log, 1, 0)
            ELSE CReturn(_async_update_cached_token(c, r.auth), r.auth,
                         r.gateway, log \o r.log, 1, 0)
    IN  IF ~Falsy(c.store_token)
        THEN cached(authenticate(a, g, doc, cfg.username, cfg.password,
                                 c.store_token, After(script, log)))
        ELSE fresh(authenticate(a, g, doc, cfg.username, cfg.password,
                                None, After(script, log)))

\* The exceptions `except httpx.HTTPError` catches.
HTTPErrors == TransportErrors \cup {"HTTPStatusError"}

\* _async_update_data from iteration `_try` of its loop on.  late: the
\* clock reads 23:00 when the httpx.HTTPError handler looks at it.
RECURSIVE _async_update_data(_, _, _, _, _, _, _, _, _, _, _, _)
_async_update_data(_try, c, a, g, doc, cfg, time, late, script, log, nauth, nupdate) ==
    IF _try >= 2 THEN CRaise("RuntimeError", c, a, g, log, nauth, nupdate)
    ELSE LET handler(exc, c2, a2, g2, log2, na, nu) ==
                 IF exc = "GatewayAuthenticationError"
                 THEN CRaise("UpdateFailed", c2, a2, g2, log2, na, nu)
                 ELSE IF exc \in {"EnlightenAuthenticationError",
                                  "GatewayAuthenticationRequired"}
                 THEN IF c2.setup_complete /\ _try = 0
                      THEN _async_update_data(
                               _try + 1,
                               [c2 EXCEPT !.setup_complete = FALSE], a2, g2,
                               doc, cfg, time, late, script, log2, na, nu)
                      ELSE CRaise("ConfigEntryAuthFailed", c2, a2, g2, log2,
                                  na, nu)
                 ELSE IF exc \in HTTPErrors
                 THEN IF _try = 0 /\ late
                      THEN _async_update_data(_try + 1, c2, a2, g2, doc, cfg,
                                              time, late, script, log2, na,
                                              nu)
                      ELSE CRaise("UpdateFailed", c2, a2, g2, log2, na, nu)
                 ELSE CRaise(exc, c2, a2, g2, log2, na, nu)
             updated(c2, log2, na, u) ==
                 IF u.kind = "raise"
                 THEN handler(u.exc, c2, u.auth, u.gateway, log2 \o u.log,
                              na, nupdate + 1)
                 ELSE CReturn(c2, u.auth, u.gateway, log2 \o u.log, na,
                              nupdate + 1)
             ready(s) ==
                 IF s.kind = "raise"
                 THEN handler(s.exc, s.coord, s.auth, s.gateway, s.log,
                              nauth + s.nauth, nupdate)
                 ELSE updated(s.coord, s.log, nauth + s.nauth,
                              update(s.auth, s.gateway,
                                     After(script, s.log)))
         IN  IF ~c.setup_complete
             THEN LET marked(s) ==
                          IF s.kind = "raise" THEN s
                          ELSE [s EXCEPT !.coord =
                                   _async_mark_setup_complete(s.coord,
                                                              s.auth)]
                  IN  ready(marked(_async_setup_and_authenticate(
                                       c, a, g, doc, cfg, time, script,
                                       log)))
             ELSE ready(CReturn(c, a, g, log, 0, 0))

(***************************************************************************)
(* The callers: inputs, initial states, one action per operation.          *)
(***************************************************************************)
Usernames == {None, "installer", "envoy", "user"}

Passwords == {None, "pw"}

TokenArgs == {None, "jwtA"}

Configs == [username : Usernames, password : Passwords, token : TokenArgs]

NoConfig == [username |-> None, password |-> None, token |-> None]

\* Identity documents: <software> text, <imeter> and <web-tokens> text
\* (None: the tag is absent), <sn> text.
Softwares ==
    {<<"R", 3, 7, 0>>, <<"R", 3, 9, 36>>, <<"D", 7, 6, 175>>,
     <<"D", 8, 2, 4>>}

\* The ivp/meters payload of a device: the measurement types of the
\* meters whose state is 'enabled'.
MeterConfigs ==
    {{}, {"production"}, {"net-consumption"}, {"total-consumption"},
     {"production", "net-consumption"}}

Devices ==
    [software : Softwares, imeter : {None, "true", "false", ""},
     web_tokens : {None, "true", "false"}, sn : {"SN"},
     meters : MeterConfigs]

ReaderDevices ==
    {d \in Devices : d.imeter \in {None, "true"}
                     /\ d.software # <<"D", 8, 2, 4>>
                     /\ d.meters \in {{}, {"production", "net-consumption"}}}

\* Scripts of a reader: an exchange is answered, refused with a status,
\* or not connected.
ReaderScripts ==
    UNION {[1..n -> {"200", "401", "500", "ConnectError"}] :
               n \in 0..MaxReaderScript}

MeteredDevice ==
    [software |-> <<"D", 7, 6, 175>>, imeter |-> "true",
     web_tokens |-> "true", sn |-> "SN",
     meters |-> {"production", "net-consumption"}]

NoLast ==
    [op |-> "init", username |-> None, password |-> None, token |-> None,
     handle_401 |-> FALSE, force |-> FALSE, attempts |-> 0,
     script |-> <<>>, kind |-> None, exc |-> None, status |-> None,
     resp |-> None, log |-> <<>>, n401 |-> 0, cls |-> None,
     serial |-> None, held |-> None, time |-> 0, stamp |-> 0,
     name |-> None, val |-> None, nauth |-> 0, nupdate |-> 0,
     late |-> FALSE]

\* The record of a finished call: its name, the script it started with,
\* its result.
Finished(op, r) ==
    [NoLast EXCEPT !.op = op, !.script = net, !.kind = r.kind,
                   !.exc = r.exc, !.log = r.log]

\* The script left after the exchanges of `log`.
Rest(log) == SubSeq(net, Len(log) + 1, Len(net))

\* The exchanges of `log` that were not answered 200 with a nominal body.
Faults(log) == Cardinality({i \in DOMAIN log : log[i].outcome # "200"})

NoCalls == [authenticate |-> 0, update |-> 0, faults |-> 0]

\* No function is called on its own.
NoInput == [fn |-> None]

\* A reader fresh from GatewayReader(host), its host's configuration, the
\* device it talks to.
Init ==
    /\ device \in ReaderDevices
    /\ config \in Configs
    /\ net \in ReaderScripts
    /\ info = NoObj
    /\ auth = NoObj
    /\ gateway = NoObj
    /\ tauth = NoObj
    /\ ep = GatewayEndpoint("production.json", 0)
    /\ now = 0
    /\ calls = NoCalls
    /\ last = NoLast
    /\ coord = NoCoord
    /\ input = NoInput

\* await reader.authenticate(username, password, token)
Authenticate ==
    LET r == authenticate(auth, gateway, device, config.username,
                          config.password, config.token, net)
    IN  /\ calls.authenticate < MaxCalls
        /\ auth' = r.auth
        /\ gateway' = r.gateway
        /\ net' = Rest(r.log)
        /\ calls' = [calls EXCEPT !.authenticate = @ + 1,
                                  !.faults = @ + Faults(r.log)]
        /\ last' = [Finished("authenticate", r) EXCEPT
                        !.username = config.username,
                        !.password = config.password,
                        !.token = config.token, !.status = r.status,
                        !.n401 = r.n401, !.cls = r.cls]
        /\ UNCHANGED <<input, coord, device, config, info, tauth, ep, now>>

\* await reader.update()
Update ==
    LET r == update(auth, gateway, net)
    IN  /\ calls.update < MaxCalls
        /\ auth' = r.auth
        /\ gateway' = r.gateway
        /\ net' = Rest(r.log)
        /\ calls' = [calls EXCEPT !.update = @ + 1,
                                  !.faults = @ + Faults(r.log)]
        /\ last' = [Finished("update", r) EXCEPT
                        !.status = r.status, !.n401 = r.n401]
        /\ UNCHANGED <<input, coord, device, config, info, tauth, ep, now>>

Next ==
    \/ Authenticate
    \/ Update

Spec == Init /\ [][Next]_vars

(***************************************************************************)
(* The reader's request methods, called on their own.                      *)
(***************************************************************************)
InitGet ==
    /\ device = MeteredDevice
    /\ config = NoConfig
    /\ net \in ReaderScripts
    /\ info = NoObj
    /\ auth = NoObj
    /\ gateway = NoObj
    /\ tauth = NoObj
    /\ ep = GatewayEndpoint("production.json", 0)
    /\ now = 0
    /\ calls = NoCalls
    /\ last = NoLast
    /\ coord = NoCoord
    /\ input = NoInput

\* await reader._async_get(url, handle_401=...)
AsyncGet ==
    \E handle_401 \in BOOLEAN :
        LET r == _async_get(auth, Url("production.json"), handle_401, 0,
                            net, <<>>)
        IN  /\ net' = Rest(r.log)
            /\ last' = [Finished("_async_get", r) EXCEPT
                            !.handle_401 = handle_401, !.status = r.status,
                            !.n401 = r.n401]
            /\ UNCHANGED <<input, coord, device, config, info, auth, gateway, tauth, ep,
                           now, calls>>

\* await reader._get_info()
GetInfo ==
    LET r == _get_info(auth, device, net, <<>>)
    IN  /\ info' = r.info
        /\ net' = Rest(r.log)
        /\ last' = [Finished("_get_info", r) EXCEPT !.status = r.status]
        /\ UNCHANGED <<input, coord, device, config, auth, gateway, tauth, ep, now, calls>>

\* reader.auth = LegacyAuth(host, username, password), as the tests do
AssignAuth ==
    /\ auth = NoObj
    /\ auth' = LegacyAuth("user", "pw")
    /\ last' = [NoLast EXCEPT !.op = "assign_auth", !.kind = "return"]
    /\ UNCHANGED <<input, coord, device, config, net, info, gateway, tauth, ep, now,
                   calls>>

NextGet ==
    \/ AsyncGet
    \/ GetInfo
    \/ AssignAuth

SpecGet == InitGet /\ [][NextGet]_vars

(***************************************************************************)
(* The HTTP helper, called on its own.                                     *)
(***************************************************************************)
InitHttp ==
    /\ device = MeteredDevice
    /\ config = NoConfig
    /\ net \in Scripts
    /\ info = NoObj
    /\ auth = NoObj
    /\ gateway = NoObj
    /\ tauth = NoObj
    /\ ep = GatewayEndpoint("production.json", 0)
    /\ now = 0
    /\ calls = NoCalls
    /\ last = NoLast
    /\ coord = NoCoord
    /\ input = NoInput

\* await async_request("GET", url, client, attempts=attempts)
AsyncRequest ==
    \E attempts \in 1..MaxAttempts :
        LET r == async_request("GET", Url("production.json"), AsyncClient,
                               attempts, net, <<>>)
        IN  /\ net' = Rest(r.log)
            /\ last' = [Finished("async_request", r) EXCEPT
                            !.attempts = attempts, !.status = r.status,
                            !.resp = r.resp.status]
            /\ UNCHANGED <<input, coord, device, config, info, auth, gateway, tauth, ep,
                           now, calls>>

NextHttp == AsyncRequest

SpecHttp == InitHttp /\ [][NextHttp]_vars

(***************************************************************************)
(* A token strategy, created and used on its own.                          *)
(***************************************************************************)
InitAuth ==
    /\ device = MeteredDevice
    /\ config = NoConfig
    /\ net \in Scripts
    /\ info = NoObj
    /\ auth = NoObj
    /\ gateway = NoObj
    /\ tauth = NoObj
    /\ ep = GatewayEndpoint("production.json", 0)
    /\ now = 0
    /\ calls = NoCalls
    /\ last = NoLast
    /\ coord = NoCoord
    /\ input = NoInput

\* tauth = EnphaseTokenAuth(host, username, password, serial, token)
NewTokenAuth ==
    \E username \in {None, "user"}, password \in Passwords,
       serial \in {None, "SN"}, token \in {None, "jwtA", "junk", ""} :
        LET r == EnphaseTokenAuth__init__(username, password, serial, token)
        IN  /\ tauth = NoObj
            /\ tauth' = r.self
            /\ last' = [Finished("EnphaseTokenAuth", r) EXCEPT
                            !.username = username, !.password = password,
                            !.serial = serial, !.token = token]
            /\ UNCHANGED <<input, coord, device, config, net, info, auth, gateway, ep,
                           now, calls>>

\* await tauth.setup(client)
TokenSetup ==
    LET r == EnphaseTokenAuth_setup(tauth, net, <<>>)
    IN  /\ tauth # NoObj
        /\ tauth' = r.self
        /\ net' = Rest(r.log)
        /\ last' = [Finished("setup", r) EXCEPT !.held = tauth.token]
        /\ UNCHANGED <<input, coord, device, config, info, auth, gateway, ep, now, calls>>

\* await tauth.refresh(client)
TokenRefresh ==
    LET r == EnphaseTokenAuth_refresh(tauth, net, <<>>)
    IN  /\ tauth # NoObj
        /\ tauth' = r.self
        /\ net' = Rest(r.log)
        /\ last' = [Finished("refresh", r) EXCEPT !.held = tauth.token]
        /\ UNCHANGED <<input, coord, device, config, info, auth, gateway, ep, now, calls>>

\* await tauth.resolve_401(client)
TokenResolve401 ==
    LET r == EnphaseTokenAuth_resolve_401(tauth, net, <<>>)
    IN  /\ tauth # NoObj
        /\ tauth' = r.self
        /\ net' = Rest(r.log)
        /\ last' = [Finished("resolve_401", r) EXCEPT !.held = tauth.token]
        /\ UNCHANGED <<input, coord, device, config, info, auth, gateway, ep, now, calls>>

\* await tauth._check_jwt(client, token)
CheckJwt ==
    \E token \in {None, "", "jwtA"} :
        LET done(r) ==
                /\ tauth' = r.self
                /\ net' = Rest(r.log)
                /\ last' = [Finished("_check_jwt", r) EXCEPT
                                !.token = token, !.val = r.val,
                                !.held = tauth.token]
        IN  /\ tauth # NoObj
            /\ done(_check_jwt(tauth, token, net, <<>>))
            /\ UNCHANGED <<input, coord, device, config, info, auth, gateway, ep, now,
                           calls>>

NextAuth ==
    \/ NewTokenAuth
    \/ TokenSetup
    \/ TokenRefresh
    \/ TokenResolve401
    \/ CheckJwt

SpecAuth == InitAuth /\ [][NextAuth]_vars

(***************************************************************************)
(* A token strategy over time: the calls of its life and is_stale.        *)
(***************************************************************************)
InitStale ==
    /\ device = MeteredDevice
    /\ config = NoConfig
    /\ net \in ReaderScripts
    /\ info = NoObj
    /\ auth = NoObj
    /\ gateway = NoObj
    /\ tauth = NoObj
    /\ ep = GatewayEndpoint("production.json", 0)
    /\ now = 0
    /\ calls = NoCalls
    /\ last = NoLast
    /\ coord = NoCoord
    /\ input = NoInput

\* tauth.is_stale
IsStale ==
    LET done(r) ==
            last' = [Finished("is_stale", r) EXCEPT
                        !.val = r.val, !.held = tauth.token, !.time = now]
    IN  /\ tauth # NoObj
        /\ done(EnphaseTokenAuth_is_stale(tauth, now))
        /\ UNCHANGED <<input, coord, device, config, net, info, auth, gateway, tauth, ep,
                       now, calls>>

\* A day passes.
Day ==
    /\ now < MaxTime
    /\ now' = now + 1
    /\ UNCHANGED <<input, coord, device, config, net, info, auth, gateway, tauth, ep,
                   calls, last>>

NextStale ==
    \/ NewTokenAuth
    \/ TokenSetup
    \/ TokenRefresh
    \/ TokenResolve401
    \/ IsStale
    \/ Day

SpecStale == InitStale /\ [][NextStale]_vars

(***************************************************************************)
(* The coordinator: the refresh cycles the host runs.                      *)
(***************************************************************************)
\* A coordinator fresh from GatewayUpdateCoordinator(hass, entry, reader)
\* on a fresh reader; the Store holds a cached token or none.
InitCoordinator ==
    /\ device \in ReaderDevices
    /\ config \in {c \in Configs : c.token = None}
    /\ net \in ReaderScripts
    /\ info = NoObj
    /\ auth = NoObj
    /\ gateway = NoObj
    /\ tauth = NoObj
    /\ ep = GatewayEndpoint("production.json", 0)
    /\ now \in {0, MaxTime}
    /\ calls = NoCalls
    /\ last = NoLast
    /\ coord \in {[NoCoord EXCEPT !.store_token = t] : t \in {None, "jwtA"}}
    /\ input = NoInput

\* One refresh cycle: await coordinator._async_update_data()
AsyncUpdateData ==
    \E late \in BOOLEAN :
        LET done(r) ==
                /\ coord' = r.coord
                /\ auth' = r.auth
                /\ gateway' = r.gateway
                /\ net' = Rest(r.log)
                /\ calls' = [calls EXCEPT
                                !.authenticate = @ + r.nauth,
                                !.update = @ + r.nupdate,
                                !.faults = @ + Faults(r.log)]
                /\ last' = [Finished("_async_update_data", r) EXCEPT
                                !.nauth = r.nauth, !.nupdate = r.nupdate,
                                !.late = late, !.held = coord.store_token]
        IN  /\ calls.authenticate < MaxCalls
            /\ done(_async_update_data(0, coord, auth, gateway, device,
                                       config, now, late, net, <<>>, 0, 0))
            /\ UNCHANGED <<input, device, config, info, tauth, ep, now>>

NextCoordinator ==
    \/ AsyncUpdateData

SpecCoordinator == InitCoordinator /\ [][NextCoordinator]_vars

(***************************************************************************)
(* The descriptors' resolve functions, called on their own.                *)
(***************************************************************************)
\* The numbers a page prints, in tenths.
Amounts == 0..MaxAmount

Pages ==
    {NoPage} \cup [label : RowLabels, number : Amounts, unit : Units]

InitRegex ==
    /\ device = MeteredDevice
    /\ config = NoConfig
    /\ net = <<>>
    /\ info = NoObj
    /\ auth = NoObj
    /\ gateway = NoObj
    /\ tauth = NoObj
    /\ ep = GatewayEndpoint("production", 0)
    /\ now = 0
    /\ calls = NoCalls
    /\ last = NoLast
    /\ coord = NoCoord
    /\ input \in [fn : {"RegexDescriptor.resolve"},
                  name : ProductionNames,
                  data : Pages]

\* RegexDescriptor.resolve(regex, data)
RegexResolve ==
    /\ last.op = "init"
    /\ last' = [NoLast EXCEPT
                   !.op = "RegexDescriptor.resolve", !.kind = "return",
                   !.name = input.name,
                   !.val = RegexDescriptor_resolve(
                               LegacyPattern(input.name), input.data)]
    /\ UNCHANGED <<device, config, net, info, auth, gateway, tauth, ep, now,
                   calls, coord, input>>

NextRegex ==
    \/ RegexResolve

SpecRegex == InitRegex /\ [][NextRegex]_vars

\* The payloads of api/v1/production and of an array endpoint.
JsonKeys == {"wattsNow", "wattHoursToday"}

JsonObjects ==
    {JsonObject(f) : f \in UNION {[S -> Amounts] : S \in SUBSET JsonKeys}}

ArrayElements == UNION {[S -> Amounts] : S \in SUBSET {"eid"}}

JsonArrays ==
    {JsonArray(seq) : seq \in UNION {[1..n -> ArrayElements] : n \in 0..2}}

Defaults == {PyNone, Num(0)}

InitJson ==
    /\ device = MeteredDevice
    /\ config = NoConfig
    /\ net = <<>>
    /\ info = NoObj
    /\ auth = NoObj
    /\ gateway = NoObj
    /\ tauth = NoObj
    /\ ep = GatewayEndpoint("api/v1/production", 0)
    /\ now = 0
    /\ calls = NoCalls
    /\ last = NoLast
    /\ coord = NoCoord
    /\ \/ input \in [fn : {"JsonDescriptor.resolve"},
                     path : {Field(k) : k \in JsonKeys} \cup {EmptyPath},
                     data : JsonObjects,
                     default : Defaults]
       \/ input \in [fn : {"JsonDescriptor.resolve"},
                     path : {Field(k) : k \in JsonKeys},
                     data : {JsonNull},
                     default : Defaults]
       \/ input \in [fn : {"JsonDescriptor.resolve"},
                     path : {Each("eid")},
                     data : JsonArrays,
                     default : Defaults]
       \/ input \in [fn : {"JsonDescriptor.__get__"},
                     path : {Field("wattsNow")},
                     data : {[p \in {"api/v1/production"} |-> o] :
                                o \in JsonObjects},
                     default : {PyNone}]
       \/ input \in [fn : {"JsonDescriptor.__get__"},
                     path : {Field("wattsNow")},
                     data : {<<>>},
                     default : {PyNone}]

\* JsonDescriptor.resolve(path, data, default)
JsonResolve ==
    /\ last.op = "init"
    /\ input.fn = "JsonDescriptor.resolve"
    /\ last' = [NoLast EXCEPT
                   !.op = "JsonDescriptor.resolve", !.kind = "return",
                   !.val = JsonDescriptor_resolve(input.path, input.data,
                                                  input.default)]
    /\ UNCHANGED <<device, config, net, info, auth, gateway, tauth, ep, now,
                   calls, coord, input>>

\* Envoy.production read on an object whose data is input.data:
\* production = JsonDescriptor("wattsNow", "api/v1/production")
DescriptorGet ==
    /\ last.op = "init"
    /\ input.fn = "JsonDescriptor.__get__"
    /\ last' = [NoLast EXCEPT
                   !.op = "JsonDescriptor.__get__", !.kind = "return",
                   !.name = "production",
                   !.val = JsonDescriptor__get__(
                               Field("wattsNow"), "api/v1/production",
                               [cls |-> "Envoy", data |-> input.data])]
    /\ UNCHANGED <<device, config, net, info, auth, gateway, tauth, ep, now,
                   calls, coord, input>>

NextJson ==
    \/ JsonResolve
    \/ DescriptorGet

SpecJson == InitJson /\ [][NextJson]_vars

\* The active power a meter reports, and the readings of the three meters
\* (eid 1: production, eid 2: net-consumption, eid 3: total-consumption).
Powers == (0 - MaxAmount)..MaxAmount

Reading(eid, power) ==
    [k \in {"eid", "activePower"} |-> IF k = "eid" THEN eid ELSE power]

InitMetered ==
    /\ device = MeteredDevice
    /\ config = NoConfig
    /\ net = <<>>
    /\ info = NoObj
    /\ auth = NoObj
    /\ gateway = NoObj
    /\ tauth = NoObj
    /\ ep = GatewayEndpoint("ivp/meters/readings", 0)
    /\ now = 0
    /\ calls = NoCalls
    /\ last = NoLast
    /\ coord = NoCoord
    /\ \E p \in Powers, n \in Powers, t \in Powers :
          input \in [fn : {"EnvoySMetered.consumption"},
                     production_meter : {Num(1)},
                     net_consumption_meter : {PyNone, Num(2)},
                     total_consumption_meter : {PyNone, Num(3)},
                     production : {p}, net : {n}, total : {t},
                     data : {[e \in {"ivp/meters/readings"} |->
                                 JsonArray(<<Reading(1, p), Reading(2, n),
                                             Reading(3, t)>>)]}]

\* EnvoySMetered.consumption read on a variant with the meters and the
\* cached readings of input.
Consumption ==
    /\ last.op = "init"
    /\ input.fn = "EnvoySMetered.consumption"
    /\ last' = [NoLast EXCEPT
                   !.op = "EnvoySMetered.consumption", !.kind = "return",
                   !.cls = "EnvoySMetered", !.name = "consumption",
                   !.val = EnvoySMetered_consumption(input)]
    /\ UNCHANGED <<device, config, net, info, auth, gateway, tauth, ep, now,
                   calls, coord, input>>

NextMetered == Consumption

SpecMetered == InitMetered /\ [][NextMetered]_vars

\* A variant instance as its property _required_endpoints sees it: its
\* class, whether the initial update has finished, and the properties that
\* currently have a value other than None, "", [] and {}.
WatchedProperties == {"production", "daily_production", "consumption"}

GatewayInstances ==
    [cls : GatewayClasses, initial_update_finished : BOOLEAN,
     valid : SUBSET WatchedProperties]

\* An instance as __init__ means to leave it: no data, no update yet.
FreshInstances ==
    {g \in GatewayInstances : ~g.initial_update_finished /\ g.valid = {}}

InitRequired ==
    /\ device = MeteredDevice
    /\ config = NoConfig
    /\ net = <<>>
    /\ info = NoObj
    /\ auth = NoObj
    /\ gateway \in FreshInstances
    /\ tauth = NoObj
    /\ ep = GatewayEndpoint("production.json", 0)
    /\ now = 0
    /\ calls = NoCalls
    /\ last = NoLast
    /\ coord = NoCoord
    /\ input = NoInput

\* gateway._required_endpoints
RequiredEndpoints ==
    /\ LET read(r) ==
               last' = [NoLast EXCEPT
                           !.op = "_required_endpoints", !.kind = r.kind,
                           !.exc = r.exc, !.cls = gateway.cls,
                           !.force = gateway.initial_update_finished,
                           !.val = r.val]
       IN  read(EnphaseGateway__required_endpoints(gateway, 0))
    /\ UNCHANGED <<device, config, net, info, auth, gateway, tauth, ep, now,
                   calls, coord, input>>

\* gateway.initial_update_finished = True
FinishInitialUpdate ==
    /\ ~gateway.initial_update_finished
    /\ gateway' = [gateway EXCEPT !.initial_update_finished = TRUE]
    /\ UNCHANGED <<device, config, net, info, auth, tauth, ep, now, calls,
                   last, coord, input>>

\* gateway.data changes: a property gains or loses its value.
ChangeData ==
    /\ \E name \in WatchedProperties :
          gateway' = [gateway EXCEPT
                         !.valid = IF name \in @ THEN @ \ {name}
                                   ELSE @ \cup {name}]
    /\ UNCHANGED <<device, config, net, info, auth, tauth, ep, now, calls,
                   last, coord, input>>

NextRequired ==
    \/ RequiredEndpoints
    \/ FinishInitialUpdate
    \/ ChangeData

SpecRequired == InitRequired /\ [][NextRequired]_vars

\* The responses an endpoint decodes: a JSON document, an XML document or
\* an HTML page, numbered, under a content type or none.
ContentTypes ==
    {None, "application/json", "text/xml", "application/xml", "text/html",
     "text/plain"}

Bodies == [format : {"json", "xml", "html"}, n : Amounts]

InitDecode ==
    /\ device = MeteredDevice
    /\ config = NoConfig
    /\ net = <<>>
    /\ info = NoObj
    /\ auth = NoObj
    /\ gateway = NoObj
    /\ tauth = NoObj
    /\ ep = GatewayEndpoint("production", 0)
    /\ now = 0
    /\ calls = NoCalls
    /\ last = NoLast
    /\ coord = NoCoord
    /\ input \in [fn : {"_decode_response"}, content_type : ContentTypes,
                  body : Bodies]

\* endpoint._decode_response(response)
DecodeResponse ==
    /\ last.op = "init"
    /\ input.fn = "_decode_response"
    /\ LET decoded(r) ==
               last' = [NoLast EXCEPT
                           !.op = "_decode_response", !.kind = r.kind,
                           !.exc = r.exc, !.val = r.val]
       IN  decoded(_decode_response(input))
    /\ UNCHANGED <<device, config, net, info, auth, gateway, tauth, ep, now,
                   calls, coord, input>>

NextDecode == DecodeResponse

SpecDecode == InitDecode /\ [][NextDecode]_vars

\* The constructor calls of the reader: `cls()` for the class chosen from
\* the identity document, and EnvoySMeteredCtDisabled(...) for the
\* replacement.  __new__ runs first and hands its instance to __init__.
InitNew ==
    /\ device \in Devices
    /\ config = NoConfig
    /\ net = <<>>
    /\ info = NoObj
    /\ auth = NoObj
    /\ gateway = NoObj
    /\ tauth = NoObj
    /\ ep = GatewayEndpoint("production.json", 0)
    /\ now = 0
    /\ calls = NoCalls
    /\ last = NoLast
    /\ coord = NoCoord
    /\ input = NoInput

Construct(cls) ==
    /\ last.op = "init"
    /\ LET built(instance, r) ==
               last' = [NoLast EXCEPT
                           !.op = "__new__", !.kind = r.kind, !.exc = r.exc,
                           !.cls = instance.cls,
                           !.val = instance._gateway_properties]
       IN  built(EnphaseGateway__new__(cls), EnphaseGateway__init__(cls))
    /\ UNCHANGED <<device, config, net, info, auth, gateway, tauth, ep, now,
                   calls, coord, input>>

\* self.gateway = EnvoyLegacy() | EnvoySMetered() | EnvoyS() | Envoy()
NewGateway == Construct(_detect_class(Info_from_response(device)))

\* EnvoySMeteredCtDisabled(production_meter, net_consumption_meter,
\*                         total_consumption_meter)
NewCtDisabled == Construct("EnvoySMeteredCtDisabled")

NextNew ==
    \/ NewGateway
    \/ NewCtDisabled

SpecNew == InitNew /\ [][NextNew]_vars

\* A token strategy after its setup: constructed with a token and set up
\* against a device that accepted the token, so that it holds the token's
\* cookies; then the calls of its life on any script.
SetUpTokenAuth ==
    EnphaseTokenAuth_setup(
        EnphaseTokenAuth__init__("user", "pw", "SN", "jwtA").self,
        <<>>, <<>>).self

InitCookies ==
    /\ device = MeteredDevice
    /\ config = NoConfig
    /\ net \in Scripts
    /\ info = NoObj
    /\ auth = NoObj
    /\ gateway = NoObj
    /\ tauth = SetUpTokenAuth
    /\ ep = GatewayEndpoint("production.json", 0)
    /\ now = 0
    /\ calls = NoCalls
    /\ last = NoLast
    /\ coord = NoCoord
    /\ input = NoInput

NextCookies ==
    \/ TokenSetup
    \/ TokenRefresh
    \/ TokenResolve401

SpecCookies == InitCookies /\ [][NextCookies]_vars

(***************************************************************************)
(* The grid properties of EnvoySMetered, read on their own.                *)
(***************************************************************************)
\* An EnvoySMetered with or without a net-consumption meter (eid 2), whose
\* cached readings list the production meter and, when `listed`, the
\* net-consumption meter.
InitGrid ==
    /\ device = MeteredDevice
    /\ config = NoConfig
    /\ net = <<>>
    /\ info = NoObj
    /\ auth = NoObj
    /\ gateway = NoObj
    /\ tauth = NoObj
    /\ ep = GatewayEndpoint("ivp/meters/readings", 0)
    /\ now = 0
    /\ calls = NoCalls
    /\ last = NoLast
    /\ coord = NoCoord
    /\ \E p \in Powers, n \in Powers, listed \in BOOLEAN :
          input \in [fn : {"EnvoySMetered.grid"},
                     production_meter : {Num(1)},
                     net_consumption_meter : {PyNone, Num(2)},
                     production : {p}, net : {n}, listed : {listed},
                     data : {[e \in {"ivp/meters/readings"} |->
                                 JsonArray(IF listed
                                           THEN <<Reading(1, p), Reading(2, n)>>
                                           ELSE <<Reading(1, p)>>)]}]

\* gateway.grid_import
GridImport ==
    /\ last.op = "init"
    /\ last' = [NoLast EXCEPT
                   !.op = "EnvoySMetered.grid_import", !.kind = "return",
                   !.cls = "EnvoySMetered", !.name = "grid_import",
                   !.val = EnvoySMetered_grid_import(input)]
    /\ UNCHANGED <<device, config, net, info, auth, gateway, tauth, ep, now,
                   calls, coord, input>>

\* gateway.grid_export
GridExport ==
    /\ last.op = "init"
    /\ last' = [NoLast EXCEPT
                   !.op = "EnvoySMetered.grid_export", !.kind = "return",
                   !.cls = "EnvoySMetered", !.name = "grid_export",
                   !.val = EnvoySMetered_grid_export(input)]
    /\ UNCHANGED <<device, config, net, info, auth, gateway, tauth, ep, now,
                   calls, coord, input>>

NextGrid ==
    \/ GridImport
    \/ GridExport

SpecGrid == InitGrid /\ [][NextGrid]_vars

(***************************************************************************)
(* The identity model and the detection of the variant.                    *)
(***************************************************************************)
InitGateway ==
    /\ device \in Devices
    /\ config \in Configs
    /\ net = <<>>
    /\ info = NoObj
    /\ auth = NoObj
    /\ gateway = NoObj
    /\ tauth = NoObj
    /\ ep = GatewayEndpoint("production.json", 0)
    /\ now = 0
    /\ calls = NoCalls
    /\ last = NoLast
    /\ coord = NoCoord
    /\ input = NoInput

\* info = Info.from_response(response), response being the device's /info
InfoFromResponse ==
    /\ info' = Info_from_response(device)
    /\ last' = [NoLast EXCEPT !.op = "Info.from_response",
                              !.kind = "return"]
    /\ UNCHANGED <<input, coord, device, config, net, auth, gateway, tauth, ep, now,
                   calls>>

\* await reader._detect_model(info)
DetectModel ==
    LET r == _detect_model(auth, gateway, info, <<>>)
    IN  /\ info # NoObj
        /\ gateway' = r.gateway
        /\ last' = [Finished("_detect_model", r) EXCEPT !.cls = r.cls]
        /\ UNCHANGED <<input, coord, device, config, net, info, auth, tauth, ep, now,
                       calls>>

\* The block of authenticate() between `info = await self._get_info()`
\* and `await self.auth.setup(...)`: the choice of the strategy.
SelectAuth ==
    LET sel == _select_auth(auth, info, config.username, config.password,
                            config.token)
        r == IF sel.kind = "return" /\ sel.self.cls = None
             THEN ARaise("GatewayAuthenticationRequired", sel.self, <<>>)
             ELSE sel
    IN  /\ info # NoObj
        /\ auth = NoObj
        /\ auth' = r.self
        /\ last' = [Finished("select_auth", r) EXCEPT
                        !.username = config.username,
                        !.password = config.password,
                        !.token = config.token]
        /\ UNCHANGED <<input, coord, device, config, net, info, gateway, tauth, ep, now,
                       calls>>

\* reader.gateway.probe(request)
Probe ==
    LET done(r) ==
            /\ gateway' = r.self
            /\ last' = [Finished("probe", r) EXCEPT !.cls = r.val]
    IN  /\ done(EnphaseGateway_probe(gateway))
        /\ UNCHANGED <<input, coord, device, config, net, info, auth, tauth, ep, now,
                       calls>>

\* The names a consumer reads from the gateway.
PropertyReads ==
    {"production", "inverters", "ensemble_power", "grid_power",
     "no_such_property"}

\* reader.gateway.get(name) by a consumer once the model detection has
\* run; last.cls stays the class the detection selected.
ReadProperty ==
    \E name \in PropertyReads :
        LET done(r) ==
                last' = [Finished("get", r) EXCEPT
                            !.cls = last.cls, !.name = name, !.val = r.val]
        IN  /\ last.op \in {"_detect_model", "get"}
            /\ done(EnphaseGateway_get(gateway, name, None))
            /\ UNCHANGED <<input, coord, device, config, net, info, auth, gateway, tauth,
                           ep, now, calls>>

NextGateway ==
    \/ InfoFromResponse
    \/ DetectModel
    \/ SelectAuth
    \/ Probe
    \/ ReadProperty

SpecGateway == InitGateway /\ [][NextGateway]_vars

(***************************************************************************)
(* An endpoint of the cache, updated on its own.                           *)
(***************************************************************************)
CacheTimes == {0, 1}

InitEndpoint ==
    /\ device = MeteredDevice
    /\ config = NoConfig
    /\ net \in ReaderScripts
    /\ info = NoObj
    /\ auth = NoObj
    /\ gateway = NoObj
    /\ tauth = NoObj
    /\ ep \in {GatewayEndpoint("production.json", c) : c \in CacheTimes}
    /\ now = 0
    /\ calls = NoCalls
    /\ last = NoLast
    /\ coord = NoCoord
    /\ input = NoInput

\* await endpoint.update(request, force=force)
EndpointUpdate ==
    \E force \in BOOLEAN :
        LET r == GatewayEndpoint_update(ep, force, now, net, <<>>)
        IN  /\ ep' = r.self
            /\ net' = Rest(r.log)
            /\ last' = [Finished("endpoint.update", r) EXCEPT
                            !.force = force, !.time = now,
                            !.stamp = ep.timestamp]
            /\ UNCHANGED <<input, coord, device, config, info, auth, gateway, tauth, now,
                           calls>>

\* time passes
Tick ==
    /\ now < MaxTime
    /\ now' = now + 1
    /\ last' = [NoLast EXCEPT !.op = "tick"]
    /\ UNCHANGED <<input, coord, device, config, net, info, auth, gateway, tauth, ep,
                   calls>>

NextEndpoint ==
    \/ EndpointUpdate
    \/ Tick

SpecEndpoint == InitEndpoint /\ [][NextEndpoint]_vars

(***************************************************************************)
(* Properties.                                                             *)
(***************************************************************************)
\* How many exchanges of `log` went to `target`.
Count(log, target) ==
    Cardinality({i \in DOMAIN log : log[i].target = target})

\* The targets of the exchanges of `log`, in order.
Targets(log) == [i \in DOMAIN log |-> log[i].target]

\* The set of the targets of the exchanges of `log`.
TargetSet(log) == {log[i].target : i \in DOMAIN log}

\* Every exchange so far was answered nominally, and so will the next be.
HealthyRun == calls.faults = 0 /\ \A i \in DOMAIN net : net[i] = "200"

LegacyFirmware ==
    VersionLess(AwesomeVersion(device.software), LEGACY_ENVOY_VERSION)

\* The configuration holds what the device's kind of authentication needs.
Adequate ==
    \/ device.web_tokens = None
    \/ /\ device.web_tokens = "true"
       /\ \/ config.token # None
          \/ config.username # None /\ config.password # None

\* C1: the first update() after an authenticate() with adequate
\* credentials on a device that answers every request returns normally,
\* has requested every endpoint of the variant's required set exactly once
\* and leaves initial_update_finished true.
C1_FirstUpdateFetchesAll ==
    (/\ last.op = "update"
     /\ calls.update = 1
     /\ calls.authenticate = 1
     /\ HealthyRun
     /\ Adequate)
    => /\ last.kind = "return"
       /\ gateway.cls \in GatewayClasses
       /\ gateway.initial_update_finished
       /\ \A p \in RequiredPaths(gateway.cls) : Count(last.log, p) = 1

C1_FirstUpdateRaises ==
    /\ last.op = "update"
    /\ calls.update = 1
    /\ calls.authenticate = 1
    /\ HealthyRun
    /\ Adequate
    /\ last.exc = "AttributeError"
    /\ last.log = <<>>

\* C2: an update of an endpoint that is not forced requests the endpoint
\* if and only if now >= last_fetch + ttl, and returns without a request
\* when the ttl has not elapsed.
C2_FetchIffCacheExpired ==
    (last.op = "endpoint.update" /\ ~last.force)
    => /\ (last.log # <<>>) <=> (last.time >= last.stamp + ep.cache_for)
       /\ (last.time < last.stamp + ep.cache_for) => last.kind = "return"

C2_ExpiredNotFetched ==
    /\ last.op = "endpoint.update"
    /\ ~last.force
    /\ last.time >= last.stamp + ep.cache_for
    /\ last.exc = "AttributeError"
    /\ last.log = <<>>

\* C3: _async_get makes at most two exchanges and completes at most one
\* resolve_401; with handle_401 and a strategy, a 401 is followed by one
\* completed resolve_401 and one retry, whose 401 propagates; without
\* handle_401, or for another error status, the error propagates after
\* one exchange with no resolve_401.
C3_Resolve401Once ==
    last.op = "_async_get"
    => /\ Len(last.log) <= 2
       /\ last.n401 <= 1
       /\ (NetAt(last.script, 1) = "401" /\ last.handle_401
           /\ auth.cls # None)
          => /\ last.n401 = 1
             /\ Len(last.log) = 2
             /\ NetAt(last.script, 2) = "401"
                => /\ last.kind = "raise"
                   /\ last.exc = "HTTPStatusError"
                   /\ last.status = "401"
       /\ (NetAt(last.script, 1) \in StatusErrors
           /\ ~(NetAt(last.script, 1) = "401" /\ last.handle_401))
          => /\ last.kind = "raise"
             /\ last.exc = "HTTPStatusError"
             /\ last.status = NetAt(last.script, 1)
             /\ Len(last.log) = 1
             /\ last.n401 = 0

C3_NoExchangeOn401 ==
    /\ last.op = "_async_get"
    /\ last.handle_401
    /\ NetAt(last.script, 1) = "401"
    /\ auth.cls = "LegacyAuth"
    /\ last.exc = "AttributeError"
    /\ last.log = <<>>
    /\ last.n401 = 0

\* C4: async_request with attempts = n makes at most n attempts, makes
\* another attempt after a transport error on an attempt that is not the
\* last, raises the transport error when all n attempts fail with one,
\* and never returns normally without a response.
C4_TransportErrorSurfaces ==
    last.op = "async_request"
    => /\ Len(last.log) <= last.attempts
       /\ \A i \in 1..(last.attempts - 1) :
            (\A j \in 1..i : NetAt(last.script, j) \in TransportErrors)
            => Len(last.log) > i
       /\ (\A j \in 1..last.attempts :
              NetAt(last.script, j) \in TransportErrors)
          => /\ last.kind = "raise"
             /\ last.exc = NetAt(last.script, last.attempts)
       /\ last.kind = "return" => last.resp # None

C4_ReturnsWithoutResponse ==
    /\ last.op = "async_request"
    /\ \A j \in 1..last.attempts : NetAt(last.script, j) \in TransportErrors
    /\ Len(last.log) = last.attempts
    /\ last.kind = "return"
    /\ last.resp = None

\* C5: update() on a reader on which authenticate() was never called
\* raises GatewayAuthenticationRequired and makes no HTTP request.
C5_UpdateBeforeAuthenticate ==
    (last.op = "update" /\ calls.authenticate = 0)
    => /\ last.kind = "raise"
       /\ last.exc = "GatewayAuthenticationRequired"
       /\ last.log = <<>>

C5_UpdateAttributeError ==
    /\ last.op = "update"
    /\ calls.authenticate = 0
    /\ auth.cls = None
    /\ last.exc = "AttributeError"
    /\ last.log = <<>>

\* C6: the class _detect_model instantiates for a parsed identity
\* document is EnvoyLegacy for a firmware below the legacy threshold,
\* otherwise EnvoySMetered for an imeter tag with value true, EnvoyS for
\* one with value false, Envoy without the tag; never another class.
C6_InitialClassification ==
    (last.op = "_detect_model" /\ device.imeter \in {None, "true", "false"})
    => /\ last.cls \in {"EnvoyLegacy", "Envoy", "EnvoyS", "EnvoySMetered"}
       /\ last.cls = IF LegacyFirmware THEN "EnvoyLegacy"
                     ELSE IF device.imeter = "true" THEN "EnvoySMetered"
                     ELSE IF device.imeter = "false" THEN "EnvoyS"
                     ELSE "Envoy"

C6_ImeterFalseIsMetered ==
    /\ last.op = "_detect_model"
    /\ ~LegacyFirmware
    /\ device.imeter = "false"
    /\ last.cls = "EnvoySMetered"

\* C7: for a device with a firmware below the legacy threshold, whatever
\* username, password, token and web-tokens flag, the strategy that
\* authenticate() assigns is a LegacyAuth and the variant it detects is
\* EnvoyLegacy.
C7_LegacyFirmwareLegacyAuth ==
    LegacyFirmware
    => /\ (last.op = "select_auth" /\ last.kind = "return")
          => auth.cls = "LegacyAuth"
       /\ last.op = "_detect_model" => last.cls = "EnvoyLegacy"

C7_LegacyFirmwareTokenAuth ==
    /\ LegacyFirmware
    /\ device.web_tokens = "true"
    /\ last.op = "select_auth"
    /\ last.kind = "return"
    /\ last.token = "jwtA"
    /\ auth.cls = "EnphaseTokenAuth"

\* C8: on a device that advertises web tokens and answers every request,
\* the first authenticate() with a decodable token leaves the reader with
\* an EnphaseTokenAuth and sends nothing to the cloud login and token
\* endpoints.
C8_TokenSkipsCloud ==
    (/\ last.op = "authenticate"
     /\ calls.authenticate = 1
     /\ device.web_tokens = "true"
     /\ config.token \in DecodableTokens
     /\ HealthyRun)
    => /\ auth.cls = "EnphaseTokenAuth"
       /\ Count(last.log, "login") = 0
       /\ Count(last.log, "tokens") = 0

C8_NoStrategySelected ==
    /\ last.op = "authenticate"
    /\ calls.authenticate = 1
    /\ device.web_tokens = "true"
    /\ config.token \in DecodableTokens
    /\ HealthyRun
    /\ auth.cls = None
    /\ last.exc = "AttributeError"

\* C9: an EnphaseTokenAuth can be created with cloud credentials and a
\* serial number but no token; a setup() of it that succeeds has made the
\* login, token and check_jwt requests in this order and leaves a
\* non-empty token and the session cookies.
C9_SetupWithoutToken ==
    /\ (/\ last.op = "EnphaseTokenAuth"
        /\ last.username # None
        /\ last.password # None
        /\ last.serial # None
        /\ last.token = None)
       => /\ last.kind = "return"
          /\ tauth.cls = "EnphaseTokenAuth"
          /\ tauth.token = None
    /\ (/\ last.op = "setup"
        /\ last.held = None
        /\ last.kind = "return")
       => /\ Targets(last.log) = <<"login", "tokens", "check_jwt">>
          /\ ~Falsy(tauth.token)
          /\ ~Falsy(tauth.cookies)

C9_ConstructorRaises ==
    /\ last.op = "EnphaseTokenAuth"
    /\ last.username # None
    /\ last.password # None
    /\ last.serial # None
    /\ last.token = None
    /\ last.exc = "TypeError"
    /\ tauth = NoObj

\* C10: on a device that advertises web tokens and answers every request,
\* authenticate() on a fresh reader with no token and without both a
\* username and a password raises GatewayAuthenticationRequired, sets no
\* strategy, detects no variant and makes no request but that of /info.
C10_NoCredentialsRaises ==
    (/\ last.op = "authenticate"
     /\ calls.authenticate = 1
     /\ device.web_tokens = "true"
     /\ config.token = None
     /\ ~(config.username # None /\ config.password # None)
     /\ HealthyRun)
    => /\ last.kind = "raise"
       /\ last.exc = "GatewayAuthenticationRequired"
       /\ auth.cls = None
       /\ gateway.cls = None
       /\ \A i \in DOMAIN last.log : last.log[i].target = "info"

C10_WrongException ==
    /\ last.op = "authenticate"
    /\ calls.authenticate = 1
    /\ device.web_tokens = "true"
    /\ config.token = None
    /\ ~(config.username # None /\ config.password # None)
    /\ HealthyRun
    /\ last.kind = "raise"
    /\ last.exc = "AttributeError"

\* C11: on a device that does not advertise web tokens and answers every
\* request, the first authenticate() builds LegacyAuth('installer', the
\* serial-derived password) when the username is absent or 'installer',
\* LegacyAuth('envoy', first 6 characters of the serial number) when the
\* username is 'envoy' without a password, in both cases without raising
\* GatewayAuthenticationRequired; another username without a password
\* raises GatewayAuthenticationRequired.
C11_LegacyDefaults ==
    (/\ last.op = "authenticate"
     /\ calls.authenticate = 1
     /\ device.web_tokens = None
     /\ HealthyRun)
    => /\ last.username \in {None, "installer"}
          => /\ last.exc # "GatewayAuthenticationRequired"
             /\ auth.cls = "LegacyAuth"
             /\ auth.username = "installer"
             /\ auth.password = InstallerPassword
       /\ (last.username = "envoy" /\ last.password = None)
          => /\ last.exc # "GatewayAuthenticationRequired"
             /\ auth.cls = "LegacyAuth"
             /\ auth.username = "envoy"
             /\ auth.password = "sn[:6]"
       /\ (last.username \notin {None, "installer", "envoy"}
           /\ last.password = None)
          => /\ last.kind = "raise"
             /\ last.exc = "GatewayAuthenticationRequired"

C11_NoLegacyAuthBuilt ==
    /\ last.op = "authenticate"
    /\ calls.authenticate = 1
    /\ device.web_tokens = None
    /\ HealthyRun
    /\ last.username = "envoy"
    /\ last.password = None
    /\ last.exc = "AttributeError"
    /\ auth.cls = None

\* C12: for a metered device, after _detect_model the reader holds
\* EnvoySMetered when a production meter or a consumption meter (net or
\* total) is enabled, and holds EnvoySMeteredCtDisabled only when none is.
C12_CtDisabledOnlyWithoutMeters ==
    (/\ last.op = "_detect_model"
     /\ ~LegacyFirmware
     /\ device.imeter = "true")
    => /\ device.meters # {} => gateway.cls = "EnvoySMetered"
       /\ gateway.cls = "EnvoySMeteredCtDisabled" => device.meters = {}

C12_NoVariantAfterDetection ==
    /\ last.op = "_detect_model"
    /\ ~LegacyFirmware
    /\ device.imeter = "true"
    /\ device.meters = {"production"}
    /\ last.cls = "EnvoySMetered"
    /\ last.exc = "AttributeError"
    /\ gateway.cls = None

\* C13: on a metered device whose ivp/meters payload lists an enabled
\* production meter and an enabled net-consumption meter and which answers
\* every request, the first authenticate() with adequate credentials leaves
\* the reader holding EnvoySMetered with production_meter and
\* net_consumption_meter set to the eids of those meters.
C13_ProbeSetsMeters ==
    (/\ last.op = "authenticate" /\ calls.authenticate = 1
     /\ HealthyRun /\ Adequate
     /\ ~LegacyFirmware
     /\ device.imeter = "true"
     /\ device.meters = {"production", "net-consumption"})
    => /\ gateway.cls = "EnvoySMetered"
       /\ gateway.production_meter # None
       /\ gateway.net_consumption_meter # None

C13_AuthenticateLeavesNoVariant ==
    /\ last.op = "authenticate" /\ calls.authenticate = 1
    /\ HealthyRun /\ Adequate
    /\ ~LegacyFirmware
    /\ device.imeter = "true"
    /\ device.meters = {"production", "net-consumption"}
    /\ last.kind = "raise" /\ last.exc = "AttributeError"
    /\ gateway.cls = None

C15_UndefinedPropertyIsNone ==
    (/\ last.op = "get"
     /\ last.cls # None
     /\ last.name \in AVAILABLE_PROPERTIES
     /\ last.name \notin DOMAIN _gateway_properties(last.cls))
    => /\ last.kind = "return"
       /\ last.val = None

C15_UndefinedPropertyRaises ==
    /\ last.op = "get"
    /\ last.cls = "Envoy"
    /\ last.name = "grid_power"
    /\ last.kind = "raise" /\ last.exc = "AttributeError"
    /\ gateway.cls = None

\* C16: resolve_401 on a strategy holding a token re-validates the token
\* with the device; when the device accepts it the cookies it answers with
\* are stored, when it rejects it the token is replaced through a full
\* setup before resolve_401 completes, and when the device cannot be
\* reached GatewayCommunicationError is raised.
C16_Resolve401Revalidates ==
    (/\ last.op = "resolve_401"
     /\ last.held \in DecodableTokens)
    => /\ Len(last.log) >= 1
       /\ last.log[1].target = "check_jwt"
       /\ NetAt(last.script, 1) = "200"
          => /\ last.kind = "return"
             /\ tauth.cookies = last.held
       /\ NetAt(last.script, 1) \in {"401", "200x"}
          => Len(last.log) >= 2
       /\ (/\ NetAt(last.script, 1) \in TransportErrors
           /\ NetAt(last.script, 2) \in TransportErrors)
          => /\ last.kind = "raise"
             /\ last.exc = "GatewayCommunicationError"
             /\ tauth.token = last.held

C16_Resolve401DoesNothing ==
    /\ last.op = "resolve_401"
    /\ last.held = "jwtA"
    /\ NetAt(last.script, 1) = "200"
    /\ last.kind = "return"
    /\ last.log = <<>>
    /\ tauth.cookies = None

\* C17: _check_jwt raises InvalidTokenError without a request for an empty
\* or missing token, InvalidTokenError when the device answers 401 or
\* answers 200 with another body than 'Valid token.',
\* GatewayCommunicationError when the device cannot be reached, and
\* returns only on 200 'Valid token.', with the cookies.
C17_CheckJwtMapping ==
    last.op = "_check_jwt"
    => /\ Falsy(last.token)
          => /\ last.kind = "raise" /\ last.exc = "InvalidTokenError"
             /\ last.log = <<>>
       /\ (~Falsy(last.token) /\ NetAt(last.script, 1) \in {"401", "200x"})
          => last.kind = "raise" /\ last.exc = "InvalidTokenError"
       /\ (/\ ~Falsy(last.token)
           /\ NetAt(last.script, 1) \in TransportErrors
           /\ NetAt(last.script, 2) \in TransportErrors)
          => last.kind = "raise" /\ last.exc = "GatewayCommunicationError"
       /\ last.kind = "return"
          => /\ last.val # None
             /\ last.log # <<>>
             /\ last.log[Len(last.log)].outcome = "200"

C17_Rejected401UnboundLocal ==
    /\ last.op = "_check_jwt"
    /\ last.token = "jwtA"
    /\ NetAt(last.script, 1) = "401"
    /\ last.kind = "raise" /\ last.exc = "UnboundLocalError"

\* C18: when refresh() asks the cloud for a token, a transport failure of
\* the login or of the token request raises EnlightenCommunicationError, a
\* 401 to either raises EnlightenAuthenticationError, the token request is
\* not sent after a failed login, and the token held is left unchanged.
C18_CloudErrorMapping ==
    last.op = "refresh"
    => /\ NetAt(last.script, 1) = "401"
          => /\ last.kind = "raise"
             /\ last.exc = "EnlightenAuthenticationError"
             /\ TargetSet(last.log) = {"login"}
             /\ tauth.token = last.held
       /\ (/\ NetAt(last.script, 1) \in TransportErrors
           /\ NetAt(last.script, 2) \in TransportErrors)
          => /\ last.kind = "raise"
             /\ last.exc = "EnlightenCommunicationError"
             /\ TargetSet(last.log) = {"login"}
             /\ tauth.token = last.held
       /\ (NetAt(last.script, 1) = "200" /\ NetAt(last.script, 2) = "401")
          => /\ last.kind = "raise"
             /\ last.exc = "EnlightenAuthenticationError"
             /\ tauth.token = last.held
       /\ (/\ NetAt(last.script, 1) = "200"
           /\ NetAt(last.script, 2) \in TransportErrors
           /\ NetAt(last.script, 3) \in TransportErrors)
          => /\ last.kind = "raise"
             /\ last.exc = "EnlightenCommunicationError"
             /\ tauth.token = last.held

C18_TransportFailureAttributeError ==
    /\ last.op = "refresh"
    /\ NetAt(last.script, 1) \in TransportErrors
    /\ NetAt(last.script, 2) \in TransportErrors
    /\ last.kind = "raise" /\ last.exc = "AttributeError"
    /\ TargetSet(last.log) = {"login"}
    /\ tauth.token = last.held

\* C19: is_stale of a token strategy never fails, whatever calls the
\* strategy has served before, and is true exactly when no token is held
\* or the time is later than the token's expiry minus 30 days.
C19_IsStaleExact ==
    last.op = "is_stale"
    => /\ last.kind = "return"
       /\ last.val = "True"
          <=> \/ last.held = None
              \/ last.time > TokenExp(last.held) - 30

C19_StaleAfterThreshold ==
    /\ last.op = "is_stale"
    /\ last.held = "jwtA"
    /\ last.time = TokenExp("jwtA") - 30 + 1
    /\ last.val = "True"

C21_OtherEndpointsStillRequested ==
    (/\ last.op = "update"
     /\ calls.update = 1
     /\ calls.authenticate = 1
     /\ Adequate
     /\ Cardinality({i \in DOMAIN last.script :
                        last.script[i] # "200"}) = 1)
    => \A p \in RequiredPaths(_detect_class(Info_from_response(device))) :
           Count(last.log, p) >= 1

C21_UpdateRequestsNothing ==
    /\ last.op = "update"
    /\ calls.update = 1
    /\ calls.authenticate = 1
    /\ Adequate
    /\ last.script = <<"200", "500">>
    /\ last.kind = "raise" /\ last.exc = "AttributeError"
    /\ last.log = <<>>
    /\ gateway.cls = None

\* C22: after the first update() following an authenticate() with adequate
\* credentials on a device that answers every request, the variant's data
\* mapping holds a payload under the path of every required endpoint.
C22_FetchedPayloadsInData ==
    (/\ last.op = "update"
     /\ calls.update = 1
     /\ calls.authenticate = 1
     /\ HealthyRun
     /\ Adequate)
    => /\ gateway.cls \in GatewayClasses
       /\ \A p \in RequiredPaths(gateway.cls) : p \in DOMAIN gateway.data

C22_NoDataMapping ==
    /\ last.op = "update"
    /\ calls.update = 1
    /\ calls.authenticate = 1
    /\ HealthyRun
    /\ Adequate
    /\ device.imeter = None
    /\ last.kind = "raise"
    /\ gateway = NoObj

C26_ScaledByUnit ==
    last.op = "RegexDescriptor.resolve"
    => LET pattern == LegacyPattern(input.name)
           page == input.data
           factor == CASE page.unit \in {"W", "Wh"} -> 1
                       [] page.unit \in {"kW", "kWh"} -> 1000
                       [] page.unit \in {"MW", "MWh"} -> 1000000
       IN  IF page.label = pattern.label /\ page.unit \in pattern.units
           THEN last.val = Float(page.number * factor)
           ELSE last.val = PyNone

C26_MegawattsUnscaled ==
    /\ last.op = "RegexDescriptor.resolve"
    /\ input.name = "production"
    /\ input.data = [label |-> "Currently", number |-> 2, unit |-> "MW"]
    /\ last.val = Float(2)

\* C27: JsonDescriptor.resolve(path, data, default) on a payload returns
\* default when the path matches nothing, the matched value itself when it
\* matches once, and the list of the matched values when it matches more
\* than once; the descriptor JsonDescriptor("wattsNow",
\* "api/v1/production") read on an object returns the number stored under
\* wattsNow in the payload cached for api/v1/production.
SameValue(a, b) == a.type = b.type /\ a.x = b.x

C28_ConsumptionIsSum ==
    (/\ last.op = "EnvoySMetered.consumption"
     /\ IsTrue(input.production_meter)
     /\ IsTrue(input.net_consumption_meter))
    => SameValue(last.val, Num(input.production + input.net))

C28_ZeroReadingGivesNone ==
    /\ last.op = "EnvoySMetered.consumption"
    /\ IsTrue(input.net_consumption_meter)
    /\ input.production = 0
    /\ input.net = 1
    /\ last.val = PyNone

\* The properties of an instance whose endpoints are required: all of them
\* before the initial update has finished, those with a value after it.
KeptProperties(self) ==
    {n \in DOMAIN _gateway_properties(self.cls) :
        ~self.initial_update_finished \/ n \in self.valid}

Min(S) == CHOOSE x \in S : \A y \in S : x <= y

\* C29: for every variant, computing the set of required endpoints
\* succeeds, the first declaration of each path included, and yields one
\* endpoint for each path some kept property declares, whose caching
\* interval is the smallest one declared for that path.
C29_OneEndpointPerPath ==
    last.op = "_required_endpoints"
    => /\ last.kind = "return"
       /\ \A a \in last.val, b \in last.val : a.path = b.path => a = b
       /\ {a.path : a \in last.val}
              = {_gateway_properties(gateway.cls)[n].path :
                     n \in KeptProperties(gateway)}
       /\ \A a \in last.val :
             a.cache_for
                 = Min({_gateway_properties(gateway.cls)[n].cache_for :
                           n \in {m \in KeptProperties(gateway) :
                                     _gateway_properties(gateway.cls)[m].path
                                         = a.path}})

C29_ComputingRecursesForever ==
    /\ last.op = "_required_endpoints"
    /\ last.cls = "Envoy"
    /\ ~last.force
    /\ last.exc = "RecursionError"

\* C30: once the initial update has finished, a read of the set of
\* required endpoints returns, and returns the paths the previous read
\* after the initial update returned, whatever values the properties have
\* by then.
C30_FrozenAfterInitialUpdate ==
    [][(/\ gateway.initial_update_finished
        /\ gateway' = gateway
        /\ last'.op = "_required_endpoints")
       => /\ last'.kind = "return"
          /\ (last.op = "_required_endpoints" /\ last.force
              /\ last.kind = "return")
             => {a.path : a \in last'.val} = {a.path : a \in last.val}]_vars

C30_NoSetAfterInitialUpdate ==
    /\ last.op = "_required_endpoints"
    /\ last.force
    /\ gateway.valid = WatchedProperties
    /\ last.kind = "raise"

\* C31: a response of content type application/json decodes to the parsed
\* JSON, one of an XML content type to the raw content, one of any other
\* text content type to the response text; no response decodes to None.
C31_DecodedByContentType ==
    (last.op = "_decode_response" /\ last.kind = "return")
    => /\ last.val.type # PyNone.type
       /\ input.content_type = "application/json"
          => SameValue(last.val, Parsed(input.body))
       /\ input.content_type \in {"text/xml", "application/xml"}
          => SameValue(last.val, Bytes(input.body))
       /\ input.content_type \in {"text/html", "text/plain"}
          => SameValue(last.val, Str(input.body))

C31_HtmlPageDecodesToNone ==
    /\ last.op = "_decode_response"
    /\ input.content_type = "text/html"
    /\ input.body.format = "html"
    /\ last.kind = "return"
    /\ last.val = PyNone

\* The class and its ancestors among the variant classes, the class first.
RECURSIVE Lineage(_)
Lineage(cls) == IF cls = None THEN <<>> ELSE <<cls>> \o Lineage(Parent(cls))

\* C32: the property table of a variant instance holds every name the
\* class or one of its ancestors declares, each bound as the most specific
\* of the classes declaring it binds it; no ancestor's name is missing.
C32_TableCollectsHierarchy ==
    last.op = "__new__"
    => LET line == Lineage(last.cls)
           declaring(n) == {i \in DOMAIN line : n \in DOMAIN OwnProperties(line[i])}
           first(n) == line[CHOOSE i \in declaring(n) :
                                \A j \in declaring(n) : i <= j]
       IN  /\ DOMAIN last.val
                  = UNION {DOMAIN OwnProperties(line[i]) : i \in DOMAIN line}
           /\ \A n \in DOMAIN last.val :
                 last.val[n] = OwnProperties(first(n))[n]

C32_MeteredOverridesProduction ==
    /\ last.op = "__new__"
    /\ last.cls = "EnvoySMetered"
    /\ last.val["production"].path = "ivp/meters/readings"
    /\ last.val["inverters"].path = "api/v1/production/inverters"
    /\ last.val["ac_battery"].path = "production.json"

\* C33: on a device that answers, the first authenticate() requests the
\* identity document once, and a repeated authenticate() within the
\* identity's lifetime returns without requesting it again.
C33_IdentityFetchedOnce ==
    (last.op = "authenticate" /\ HealthyRun /\ Adequate)
    => /\ last.kind = "return"
       /\ calls.authenticate = 1
          => Cardinality({i \in DOMAIN last.log :
                             last.log[i].target = "info"}) = 1
       /\ calls.authenticate > 1 => "info" \notin TargetSet(last.log)

C33_IdentityNeverFetched ==
    /\ last.op = "authenticate"
    /\ calls.authenticate = 2
    /\ HealthyRun
    /\ Adequate
    /\ last.exc = "AttributeError"
    /\ last.log = <<>>

\* The exchanges of `log` with the identity document as target.
InfoExchanges(log) == {i \in DOMAIN log : log[i].target = "info"}

\* C34: a first authenticate() whose identity request is refused with a
\* status raises, leaves the reader without strategy and variant and sends
\* nothing but identity requests; when both https attempts end in a
\* connect error, exactly one more identity request, over http, follows.
C34_IdentityFailureIsFatal ==
    (last.op = "authenticate" /\ calls.authenticate = 1
     /\ last.script # <<>>)
    => /\ last.script[1] \in {"401", "500"}
          => /\ last.kind = "raise"
             /\ auth = NoObj
             /\ gateway = NoObj
             /\ TargetSet(last.log) \subseteq {"info"}
       /\ last.script = <<"ConnectError", "ConnectError">>
          => Cardinality(InfoExchanges(last.log)) = 3

C34_NoFallbackRequest ==
    /\ last.op = "authenticate"
    /\ calls.authenticate = 1
    /\ last.script = <<"ConnectError", "ConnectError">>
    /\ last.exc = "AttributeError"
    /\ InfoExchanges(last.log) = {}

\* C35: in every state of a token strategy, cookies it holds were obtained
\* by validating the token it holds: a change of the token leaves no
\* cookies of the previous token, also when the validation of the new
\* token fails.
C35_CookiesBelongToToken ==
    (tauth.cls = "EnphaseTokenAuth" /\ tauth.cookies # None)
    => tauth.cookies = tauth.token

C35_NewTokenWithoutCookies ==
    /\ last.op = "refresh"
    /\ last.kind = "raise"
    /\ last.held = "jwtA"
    /\ tauth.token = "jwtB"
    /\ tauth.cookies = None

\* The device asks for a token and the configuration holds neither a token
\* nor a username with a password.
NoUsableCredentials ==
    /\ device.web_tokens = "true"
    /\ config.token = None
    /\ config.username = None \/ config.password = None

\* C36: an authenticate() that raises leaves the reader without a
\* strategy, and a later authenticate() on a device that answers, without
\* usable credentials, raises GatewayAuthenticationRequired.
C36_NoStrategyAfterFailure ==
    last.op = "authenticate"
    => /\ last.kind = "raise" => auth = NoObj
       /\ (calls.authenticate = 2 /\ HealthyRun /\ NoUsableCredentials)
          => last.exc = "GatewayAuthenticationRequired"

C36_LaterCallRaisesAttributeError ==
    /\ last.op = "authenticate"
    /\ calls.authenticate = 2
    /\ HealthyRun
    /\ NoUsableCredentials
    /\ auth = NoObj
    /\ last.exc = "AttributeError"

\* C37: a refresh cycle ends by returning the gateway, by raising
\* UpdateFailed or by raising ConfigEntryAuthFailed, and never by the
\* RuntimeError that follows the loop.
C37_EndsInOneOfThreeOutcomes ==
    last.op = "_async_update_data"
    => /\ last.exc # "RuntimeError"
       /\ \/ last.kind = "return"
          \/ last.exc \in {"UpdateFailed", "ConfigEntryAuthFailed"}

C37_CycleEndsInAttributeError ==
    /\ last.op = "_async_update_data"
    /\ last.kind = "raise"
    /\ last.exc \notin {"UpdateFailed", "ConfigEntryAuthFailed", "RuntimeError"}
    /\ last.exc = "AttributeError"
    /\ coord.store_token = "jwtA"

\* C38: on a metered device without enabled meters that answers every
\* request, after an authenticate() with adequate credentials the reader
\* holds the replacement EnvoySMeteredCtDisabled, and the first update()
\* requests every endpoint that class requires and never
\* ivp/meters/readings.
C38_CtDisabledFetchesOwnEndpoints ==
    (/\ last.op = "update"
     /\ calls.update = 1
     /\ calls.authenticate = 1
     /\ HealthyRun /\ Adequate
     /\ ~LegacyFirmware
     /\ device.imeter = "true"
     /\ device.meters = {})
    => /\ gateway.cls = "EnvoySMeteredCtDisabled"
       /\ \A p \in RequiredPaths("EnvoySMeteredCtDisabled") :
              Count(last.log, p) >= 1
       /\ Count(last.log, "ivp/meters/readings") = 0

C38_NoReplacementNoRequest ==
    /\ last.op = "update"
    /\ calls.update = 1
    /\ calls.authenticate = 1
    /\ HealthyRun /\ Adequate
    /\ ~LegacyFirmware
    /\ device.imeter = "true"
    /\ device.meters = {}
    /\ gateway.cls = None
    /\ last.kind = "raise" /\ last.exc = "AttributeError"
    /\ TargetSet(last.log) = {}

\* C39: a read of the set of required endpoints after the initial update
\* returns, and returns an endpoint for a path of the variant exactly when
\* some property bound to that path has a non-empty value.
C39_KeptIffSomePropertyHasValue ==
    [][(/\ gateway.initial_update_finished
        /\ gateway' = gateway
        /\ last'.op = "_required_endpoints")
       => /\ last'.kind = "return"
          /\ \A p \in RequiredPaths(gateway.cls) :
                p \in {a.path : a \in last'.val}
                <=> \E n \in gateway.valid :
                       /\ n \in DOMAIN _gateway_properties(gateway.cls)
                       /\ _gateway_properties(gateway.cls)[n].path = p]_vars

C39_ReadWithOneValueRaises ==
    /\ last.op = "_required_endpoints"
    /\ last.cls = "EnvoySMeteredCtDisabled"
    /\ last.force
    /\ gateway.initial_update_finished
    /\ gateway.valid = {"production"}
    /\ last.kind = "raise" /\ last.exc = "RecursionError"

\* The larger of two integers.
Max(a, b) == IF a >= b THEN a ELSE b

\* C40: on an EnvoySMetered with a net-consumption meter whose reading
\* lists the active power p, grid_import is max(p, 0) and grid_export is
\* max(-p, 0): both are non-negative, at most one is non-zero and their
\* difference is p.  Without a net-consumption meter both are None.
C40_ImportExportSplitNetPower ==
    LET imp == EnvoySMetered_grid_import(input)
        exp == EnvoySMetered_grid_export(input)
    IN  /\ (last.op = "EnvoySMetered.grid_import"
            /\ IsTrue(input.net_consumption_meter) /\ input.listed)
           => SameValue(last.val, Num(Max(input.net, 0)))
        /\ (last.op = "EnvoySMetered.grid_export"
            /\ IsTrue(input.net_consumption_meter) /\ input.listed)
           => SameValue(last.val, Num(Max(0 - input.net, 0)))
        /\ (last.op \in {"EnvoySMetered.grid_import",
                         "EnvoySMetered.grid_export"}
            /\ IsTrue(input.net_consumption_meter) /\ input.listed)
           => /\ imp.type = "int" /\ exp.type = "int"
              /\ imp.x >= 0 /\ exp.x >= 0
              /\ imp.x = 0 \/ exp.x = 0
              /\ imp.x - exp.x = input.net
        /\ (last.op \in {"EnvoySMetered.grid_import",
                         "EnvoySMetered.grid_export"}
            /\ ~IsTrue(input.net_consumption_meter))
           => /\ last.val.type = PyNone.type
              /\ imp.type = PyNone.type /\ exp.type = PyNone.type

C40_NegativePowerIsExport ==
    /\ last.op = "EnvoySMetered.grid_export"
    /\ IsTrue(input.net_consumption_meter)
    /\ input.listed
    /\ input.net < 0
    /\ last.val.type = "int"
    /\ last.val.x = 0 - input.net
    /\ EnvoySMetered_grid_import(input).type = "int"
    /\ EnvoySMetered_grid_import(input).x = 0

====
